---------------------------- MODULE Spec2Model ----------------------------
(***************************************************************************)
(* Model of the FT data cleaners: the DC, DVDS and RG spreadsheet          *)
(* extractors, their mergers and their batch runs.                         *)
(*                                                                         *)
(* Text is a sequence of one-character strings, so that str.strip, the     *)
(* `in` substring test, str.upper, f-string concatenation and re.search    *)
(* are computed character by character.  A spreadsheet cell is missing     *)
(* (NaN), a text or a number.  Row and column indexes are 0-based, as in   *)
(* the source (df.iloc).                                                   *)
(***************************************************************************)
EXTENDS Integers, Sequences, FiniteSets, TLC

(***************************************************************************)
(* Bounds of the model.                                                    *)
(***************************************************************************)
\* longest list of input files of one batch run
MaxFiles == 2
\* number of parameter columns to the right of the marker in a generated grid
ParamCols == 3
\* number of data rows below the header row in a generated grid
DataRows == 2
\* number of files of a batch whose merge is followed row by row
MergeFiles == 3
\* number of workers the GUI may start
MaxRuns == 2
\* number of ExcelOptimizer calls made one after the other
MaxCalls == 2

(***************************************************************************)
(* Text                                                                    *)
(***************************************************************************)
DigitChars == <<"0", "1", "2", "3", "4", "5", "6", "7", "8", "9">>

IsDigit(c) == \E i \in 1..10 : DigitChars[i] = c

IsSpace(c) == c = " "

IsUpperOrDigit(c) ==
    c \in {"A", "B", "C", "D", "E", "F", "G", "H", "I", "J", "K", "L", "M",
           "N", "O", "P", "Q", "R", "S", "T", "U", "V", "W", "X", "Y", "Z"}
    \/ IsDigit(c)

\* str.upper on one character (the letters the inputs use)
UpperChar(c) ==
    CASE c = "a" -> "A" [] c = "c" -> "C" [] c = "d" -> "D" [] c = "e" -> "E"
      [] c = "g" -> "G" [] c = "i" -> "I" [] c = "l" -> "L" [] c = "m" -> "M"
      [] c = "n" -> "N" [] c = "o" -> "O" [] c = "r" -> "R" [] c = "s" -> "S"
      [] c = "t" -> "T" [] c = "v" -> "V" [] c = "x" -> "X"
      [] OTHER -> c

Upper(s) == [i \in 1..Len(s) |-> UpperChar(s[i])]

RECURSIVE LStrip(_)
LStrip(s) == IF s # <<>> /\ IsSpace(Head(s)) THEN LStrip(Tail(s)) ELSE s

RECURSIVE RStrip(_)
RStrip(s) ==
    IF s # <<>> /\ IsSpace(s[Len(s)]) THEN RStrip(SubSeq(s, 1, Len(s) - 1)) ELSE s

\* str.strip()
Strip(s) == RStrip(LStrip(s))

\* the Python test  t in s
Contains(s, t) ==
    \E i \in 1..(Len(s) - Len(t) + 1) : SubSeq(s, i, i + Len(t) - 1) = t

EndsWith(s, t) ==
    Len(s) >= Len(t) /\ SubSeq(s, Len(s) - Len(t) + 1, Len(s)) = t

RECURSIVE NatToStr(_)
NatToStr(n) ==
    IF n < 10 THEN <<DigitChars[n + 1]>>
    ELSE NatToStr(n \div 10) \o <<DigitChars[(n % 10) + 1]>>

\* str(n) of an integer
IntToStr(n) == IF n < 0 THEN <<"-">> \o NatToStr(0 - n) ELSE NatToStr(n)

\* end of the run of digits of s that starts at position i (i - 1 when none)
RECURSIVE DigitRunEnd(_, _)
DigitRunEnd(s, i) ==
    IF i <= Len(s) /\ IsDigit(s[i]) THEN DigitRunEnd(s, i + 1) ELSE i - 1

\* position of the first digit of s at or after i (0 when none)
RECURSIVE FirstDigit(_, _)
FirstDigit(s, i) ==
    IF i > Len(s) THEN 0
    ELSE IF IsDigit(s[i]) THEN i ELSE FirstDigit(s, i + 1)

\* re.search(r'(\d+\.?\d*)', s).group(1); <<>> when there is no match
FirstNumber(s) ==
    LET b == FirstDigit(s, 1)
        e == DigitRunEnd(s, b)
        f == IF e + 1 <= Len(s) /\ s[e + 1] = "." THEN DigitRunEnd(s, e + 2) ELSE e
    IN  IF b = 0 THEN <<>> ELSE SubSeq(s, b, f)

RECURSIVE DigitsValue(_)
DigitsValue(s) ==
    IF s = <<>> THEN 0
    ELSE 10 * DigitsValue(SubSeq(s, 1, Len(s) - 1))
         + (CHOOSE d \in 0..9 : DigitChars[d + 1] = s[Len(s)])

AllDigits(s) == s # <<>> /\ \A i \in 1..Len(s) : IsDigit(s[i])

\* float(s) for the texts of the inputs: surrounding blanks, an optional sign
\* and decimal digits parse; anything else raises ValueError (ok = FALSE)
ParseFloat(s) ==
    LET t == Strip(s)
        neg == t # <<>> /\ Head(t) = "-"
        d == IF neg THEN Tail(t) ELSE t
    IN  IF AllDigits(d)
        THEN [ok |-> TRUE, v |-> IF neg THEN 0 - DigitsValue(d) ELSE DigitsValue(d)]
        ELSE [ok |-> FALSE, v |-> 0]

(***************************************************************************)
(* Cells and grids                                                         *)
(***************************************************************************)
NaN == [k |-> "nan", s |-> <<>>, n |-> 0]

Txt(s) == [k |-> "str", s |-> s, n |-> 0]

Num(n) == [k |-> "num", s |-> <<>>, n |-> n]

\* pd.isna / pd.notna
IsNa(v) == v.k = "nan"

\* str(v)
Str(v) ==
    CASE v.k = "nan" -> <<"n", "a", "n">>
      [] v.k = "str" -> v.s
      [] OTHER -> IntToStr(v.n)

\* A grid (the DataFrame read with header=None): nrows x ncols cells, the
\* cells that are not listed being missing.
Grid(nrows, ncols, cells) == [nrows |-> nrows, ncols |-> ncols, cells |-> cells]

\* df.iloc[r, c] for r, c in range
Cell(df, r, c) == IF <<r, c>> \in DOMAIN df.cells THEN df.cells[<<r, c>>] ELSE NaN


(***************************************************************************)
(* Tables (the DataFrames the extractors build)                            *)
(***************************************************************************)
\* cols: the column labels in order; rows: one sequence of cells per row,
\* aligned with cols
Table(cols, rows) == [cols |-> cols, rows |-> rows]

\* pd.DataFrame()
EmptyTable == Table(<<>>, <<>>)

\* DataFrame.empty
IsEmpty(t) == Len(t.cols) = 0 \/ Len(t.rows) = 0

\* position of label c among the columns (0 when absent)
ColIndex(cols, c) ==
    IF \E i \in 1..Len(cols) : cols[i] = c
    THEN CHOOSE i \in 1..Len(cols) : cols[i] = c /\ \A j \in 1..(i - 1) : cols[j] # c
    ELSE 0

\* d[key] = val on a dict kept as a sequence of <<key, value>> pairs in
\* insertion order: an existing key keeps its position and takes the new value
DictSet(d, key, val) ==
    IF \E i \in 1..Len(d) : d[i][1] = key
    THEN [i \in 1..Len(d) |-> IF d[i][1] = key THEN <<key, val>> ELSE d[i]]
    ELSE Append(d, <<key, val>>)

\* pd.DataFrame(list of dicts that all have the same keys in the same order)
TableOfDicts(ds) ==
    IF ds = <<>> THEN EmptyTable
    ELSE Table([i \in 1..Len(ds[1]) |-> ds[1][i][1]],
               [r \in 1..Len(ds) |-> [i \in 1..Len(ds[r]) |-> ds[r][i][2]]])

(***************************************************************************)
(* Tokens and labels                                                       *)
(***************************************************************************)
CONT == <<"C", "O", "N", "T">>

SAME == <<"S", "A", "M", "E">>

IDSS == <<"I", "D", "S", "S">>

ISGS == <<"I", "S", "G", "S">>

TestNo == <<"T", "e", "s", "t", " ", "N", "o">>

TestNoDot == <<"T", "e", "s", "t", " ", "N", "o", ".">>

LotID == <<"l", "o", "t", "_", "I", "D">>

NUM == <<"N", "U", "M">>

DVDS == <<"D", "V", "D", "S">>

RG == <<"R", "G">>

RGCol == <<"R", "G", "(", "R", ")">>

(***************************************************************************)
(* Log entries: the logger calls at warning and error level                *)
(***************************************************************************)
LogEntry(level, msg, file) == [level |-> level, msg |-> msg, file |-> file]

(***************************************************************************)
(* DC: extract_batch_info                                                  *)
(***************************************************************************)
\* whether [A-Z0-9]{4}-[0-9]{4} matches s at position i
LotPatternAt(s, i) ==
    /\ i + 8 <= Len(s)
    /\ \A k \in 0..3 : IsUpperOrDigit(s[i + k])
    /\ s[i + 4] = "-"
    /\ \A k \in 5..8 : IsDigit(s[i + k])

\* re.search(pattern, filename): position of the leftmost match (0 when none)
RECURSIVE LotPatternSearch(_, _)
LotPatternSearch(s, i) ==
    IF i > Len(s) THEN 0
    ELSE IF LotPatternAt(s, i) THEN i ELSE LotPatternSearch(s, i + 1)

\* position of the last "." of s (0 when none)
RECURSIVE LastDot(_, _)
LastDot(s, i) == IF i = 0 THEN 0 ELSE IF s[i] = "." THEN i ELSE LastDot(s, i - 1)

\* Path(filename).stem: the name without its last suffix (a leading dot is
\* no suffix)
Stem(s) ==
    LET d == LastDot(s, Len(s))
    IN  IF d > 1 /\ d < Len(s) THEN SubSeq(s, 1, d - 1) ELSE s

extract_batch_info(filename) ==
    LET m == LotPatternSearch(filename, 1)
    IN  IF m # 0 THEN SubSeq(filename, m, m + 8) ELSE Stem(filename)

(***************************************************************************)
(* DC: extract_dc_data, step by step                                       *)
(***************************************************************************)
\* a marker test that ignores the case of the cell
IsContCellAnyCase(v) == ~IsNa(v) /\ Upper(Strip(Str(v))) = CONT

\* the test of the marker scan
IsContCell(v) == ~IsNa(v) /\ Strip(Str(v)) = CONT

\* for i, val in enumerate(row1): ... break   (-1 stands for None)
RECURSIVE ContScan(_, _)
ContScan(df, i) ==
    IF i >= df.ncols THEN -1
    ELSE IF IsContCell(Cell(df, 1, i)) THEN i ELSE ContScan(df, i + 1)

\* the test of the candidate collection
IsCandidate(v) ==
    ~IsNa(v) /\ Strip(Str(v)) # <<>> /\ Strip(Str(v)) # SAME

\* for i in range(cont_col + 1, len(row1)): ... test_params.append((i, name))
RECURSIVE CollectParams(_, _)
CollectParams(df, i) ==
    IF i >= df.ncols THEN <<>>
    ELSE IF IsCandidate(Cell(df, 1, i))
         THEN <<[col |-> i, name |-> Strip(Str(Cell(df, 1, i)))]>>
              \o CollectParams(df, i + 1)
         ELSE CollectParams(df, i + 1)

\* a unit, or None
NoUnit == [some |-> FALSE, s |-> <<>>]

SomeUnit(s) == [some |-> TRUE, s |-> s]

\* the unit of a parameter column, from row 6
UnitName(df, col) ==
    LET v == Cell(df, 6, col)
    IN  IF IsNa(v) \/ Strip(Str(v)) = <<>> THEN NoUnit ELSE SomeUnit(Strip(Str(v)))

\* extract_test_condition_value: the number text, <<>> for None
extract_test_condition_value(df, col) ==
    IF df.nrows < 5 THEN <<>>
    ELSE IF col >= df.ncols THEN <<>>
    ELSE IF IsNa(Cell(df, 4, col)) THEN <<>>
    ELSE FirstNumber(Strip(Str(Cell(df, 4, col))))

\* an enrichment test that compares the name letter for letter
IsEnrichedExact(param) == param \in {IDSS, ISGS}

\* whether a raw name is enriched
IsEnriched(param) == Upper(param) \in {IDSS, ISGS}

\* the name of step 4: the raw name, with the test condition when enriched
EnhancedParam(df, col, param) ==
    IF IsEnriched(param) /\ extract_test_condition_value(df, col) # <<>>
    THEN param \o extract_test_condition_value(df, col)
    ELSE param

\* param_unit_pairs
ParamUnitPairs(df, test_params) ==
    [i \in 1..Len(test_params) |->
        [col |-> test_params[i].col,
         param |-> EnhancedParam(df, test_params[i].col, test_params[i].name),
         unit |-> UnitName(df, test_params[i].col)]]

\* Counter(param_names)[param]
ParamCount(pairs, param) == Cardinality({j \in 1..Len(pairs) : pairs[j].param = param})

\* param_counters[param] when the loop reaches entry i: its earlier occurrences
SeenBefore(pairs, i) ==
    Cardinality({j \in 1..(i - 1) : pairs[j].param = pairs[i].param})

\* a numbering that leaves the first occurrence of a repeated name bare
NumberedFromSecond(pairs, i) ==
    IF SeenBefore(pairs, i) > 0
    THEN pairs[i].param \o IntToStr(SeenBefore(pairs, i) + 1)
    ELSE pairs[i].param

\* numbered_param of entry i
NumberedParam(pairs, i) ==
    IF SeenBefore(pairs, i) > 0
    THEN pairs[i].param \o IntToStr(SeenBefore(pairs, i) + 1)
    ELSE IF ParamCount(pairs, pairs[i].param) > 1
         THEN pairs[i].param \o <<"1">>
         ELSE pairs[i].param

\* final_param_name
WithUnit(name, unit) ==
    IF unit.some THEN name \o <<"(">> \o unit.s \o <<")">> ELSE name

\* final names whose counter follows the unit parenthesis
FinalParamsCounterLast(pairs) ==
    [i \in 1..Len(pairs) |->
        [col |-> pairs[i].col,
         name |-> WithUnit(pairs[i].param, pairs[i].unit)
                  \o (IF ParamCount(pairs, pairs[i].param) > 1
                      THEN IntToStr(SeenBefore(pairs, i) + 1) ELSE <<>>)]]

\* final_params
FinalParams(pairs) ==
    [i \in 1..Len(pairs) |->
        [col |-> pairs[i].col, name |-> WithUnit(NumberedParam(pairs, i), pairs[i].unit)]]

\* a header test that compares the whole trimmed cell with "Test No."
IsTestNoCellExact(v) == ~IsNa(v) /\ Strip(Str(v)) = TestNoDot

\* the test of the header-row scan
IsTestNoCellDC(v) == ~IsNa(v) /\ Contains(Str(v), TestNo)

\* for i in range(df.shape[0]): for j in range(df.shape[1]): ... break
\* (the row of the first hit, -1 for None)
RECURSIVE TestNoScanDC(_, _, _)
TestNoScanDC(df, i, j) ==
    IF i >= df.nrows THEN -1
    ELSE IF j >= df.ncols THEN TestNoScanDC(df, i + 1, 0)
    ELSE IF IsTestNoCellDC(Cell(df, i, j)) THEN i
    ELSE TestNoScanDC(df, i, j + 1)

\* row_data of one data row: lot_ID first, then each final parameter in order
RECURSIVE RowData(_, _, _, _, _)
RowData(df, row_idx, final_params, k, d) ==
    IF k > Len(final_params) THEN d
    ELSE RowData(df, row_idx, final_params, k + 1,
                 DictSet(d, final_params[k].name, Cell(df, row_idx, final_params[k].col)))

\* test data that take the header row for the first data row
TestDataFromHeader(df, lot_id, final_params, data_start_row) ==
    [r \in 1..(IF df.nrows >= data_start_row THEN df.nrows - data_start_row + 1 ELSE 0) |->
        RowData(df, data_start_row + r - 2, final_params, 1, <<<<LotID, Txt(lot_id)>>>>)]

\* test data that hold no row when there is no parameter
TestDataOfParams(df, lot_id, final_params, data_start_row) ==
    [r \in 1..(IF final_params # <<>> /\ df.nrows > data_start_row
               THEN df.nrows - data_start_row ELSE 0) |->
        RowData(df, data_start_row + r - 1, final_params, 1, <<<<LotID, Txt(lot_id)>>>>)]

\* test_data
TestData(df, lot_id, final_params, data_start_row) ==
    [r \in 1..(IF df.nrows > data_start_row THEN df.nrows - data_start_row ELSE 0) |->
        RowData(df, data_start_row + r - 1, final_params, 1, <<<<LotID, Txt(lot_id)>>>>)]


\* the warnings logged while the parameters are matched with their units: an
\* enriched name whose condition cell holds no number (one warning in
\* extract_test_condition_value, one in the caller), or whose cell is missing
\* (the caller's warning alone)
RECURSIVE EnrichWarnings(_, _, _, _)
EnrichWarnings(df, test_params, k, name) ==
    IF k > Len(test_params) THEN <<>>
    ELSE LET col == test_params[k].col
             here ==
                 IF ~IsEnriched(test_params[k].name)
                    \/ extract_test_condition_value(df, col) # <<>>
                 THEN <<>>
                 ELSE IF df.nrows < 5 \/ col >= df.ncols \/ ~IsNa(Cell(df, 4, col))
                      THEN <<LogEntry("warning", "dc:no_condition_value", name),
                             LogEntry("warning", "dc:keep_raw_name", name)>>
                      ELSE <<LogEntry("warning", "dc:keep_raw_name", name)>>
         IN  here \o EnrichWarnings(df, test_params, k + 1, name)

\* the warning of extract_batch_info when the pattern does not match
BatchInfoWarnings(name) ==
    IF LotPatternSearch(name, 1) = 0
    THEN <<LogEntry("warning", "dc:lot_pattern_failed", name)>>
    ELSE <<>>

\* What one extraction leaves: ret is "None" or "df" (a DataFrame, in table);
\* why names the return statement taken; the locals the run reached
\* (-1 and <<>> for the ones it did not reach); log, the warnings and errors.
Outcome(ret, why, cont_col, test_params, final_params, test_no_row, table, log) ==
    [ret |-> ret, why |-> why, cont_col |-> cont_col, test_params |-> test_params,
     final_params |-> final_params, test_no_row |-> test_no_row, table |-> table,
     log |-> log]

\* a return None that logs nothing
DcSilent(msg, name) == <<>>

\* the logger.error call in front of each return None of extract_dc_data
DcError(msg, name) == <<LogEntry("error", msg, name)>>

\* extract_dc_data on a file [name, readable, df]: readable is whether
\* pd.read_excel returns the grid df or raises
extract_dc_data(file) ==
    LET df == file.df
        name == file.name
        lot_id == extract_batch_info(name)
        w0 == BatchInfoWarnings(name)
        cont_col == ContScan(df, 0)
        test_params == CollectParams(df, cont_col + 1)
        w1 == w0 \o EnrichWarnings(df, test_params, 1, name)
        final_params == FinalParams(ParamUnitPairs(df, test_params))
        test_no_row == TestNoScanDC(df, 0, 0)
        result_df == TableOfDicts(TestData(df, lot_id, final_params, test_no_row + 1))
    IN  IF ~file.readable
        THEN Outcome("None", "exception", -1, <<>>, <<>>, -1, EmptyTable,
                     DcError("dc:exception", name))
        ELSE IF df.nrows < 2
        THEN Outcome("None", "rows_lt_2", -1, <<>>, <<>>, -1, EmptyTable,
                     w0 \o DcError("dc:rows_lt_2", name))
        ELSE IF cont_col = -1
        THEN Outcome("None", "no_cont", -1, <<>>, <<>>, -1, EmptyTable,
                     w0 \o DcError("dc:no_cont", name))
        ELSE IF df.nrows < 7
        THEN Outcome("None", "rows_lt_7", cont_col, test_params, <<>>, -1, EmptyTable,
                     w0 \o DcError("dc:rows_lt_7", name))
        ELSE IF test_no_row = -1
        THEN Outcome("None", "no_test_no", cont_col, test_params, final_params, -1,
                     EmptyTable, w1 \o DcError("dc:no_test_no", name))
        ELSE IF IsEmpty(result_df)
        THEN Outcome("df", "empty", cont_col, test_params, final_params, test_no_row,
                     result_df, w1 \o <<LogEntry("warning", "dc:empty_result", name)>>)
        ELSE Outcome("df", "ok", cont_col, test_params, final_params, test_no_row,
                     result_df, w1)

(***************************************************************************)
(* RG: locate_rg_header, extract_rg_data                                   *)
(***************************************************************************)
\* the test of the RG scans (no missing-value test: str(nan) is "nan")
IsNamedCell(v, target) == Upper(Strip(Str(v))) = target

\* for j in range(len(df.columns)) on row i: the first hit, -1 when none
RECURSIVE NamedScanRow(_, _, _, _)
NamedScanRow(df, i, j, target) ==
    IF j >= df.ncols THEN -1
    ELSE IF IsNamedCell(Cell(df, i, j), target) THEN j
    ELSE NamedScanRow(df, i, j + 1, target)

\* number of leading rows the fallback scan of locate_rg_header reads
FallbackRows == 5

Min(a, b) == IF a < b THEN a ELSE b

\* for i in range(min(5, len(df))): for j ...: the first hit, <<-1, -1>> for None
RECURSIVE NamedScanRows(_, _, _)
NamedScanRows(df, i, target) ==
    IF i >= Min(FallbackRows, df.nrows) THEN <<-1, -1>>
    ELSE IF NamedScanRow(df, i, 0, target) # -1
         THEN <<i, NamedScanRow(df, i, 0, target)>>
         ELSE NamedScanRows(df, i + 1, target)

\* a locator that reads row 1 only
locate_in_row_1(df) ==
    IF 1 < df.nrows /\ NamedScanRow(df, 1, 0, RG) # -1
    THEN <<1, NamedScanRow(df, 1, 0, RG)>>
    ELSE <<-1, -1>>

\* locate_rg_header: (row, column) of the RG cell, <<-1, -1>> for None
locate_rg_header(df) ==
    IF 1 < df.nrows /\ NamedScanRow(df, 1, 0, RG) # -1
    THEN <<1, NamedScanRow(df, 1, 0, RG)>>
    ELSE NamedScanRows(df, 0, RG)

\* the test of the RG header-row scan
IsTestNoCellRG(v) == Contains(Strip(Str(v)), TestNo)

RECURSIVE TestNoScanRG(_, _, _)
TestNoScanRG(df, i, j) ==
    IF i >= df.nrows THEN -1
    ELSE IF j >= df.ncols THEN TestNoScanRG(df, i + 1, 0)
    ELSE IF IsTestNoCellRG(Cell(df, i, j)) THEN i
    ELSE TestNoScanRG(df, i, j + 1)

\* rg_values: the numbers of column col from row i down; a text is kept when
\* float() parses it and skipped otherwise
RECURSIVE RGValues(_, _, _)
RGValues(df, i, col) ==
    IF i >= df.nrows THEN <<>>
    ELSE LET v == Cell(df, i, col)
         IN  (IF v.k = "num" THEN <<Num(v.n)>>
              ELSE IF v.k = "str" /\ ParseFloat(Strip(v.s)).ok
                   THEN <<Num(ParseFloat(Strip(v.s)).v)>>
                   ELSE <<>>)
             \o RGValues(df, i + 1, col)

\* the table of one parameter: lot_ID and the values under label
ValueTable(lot_id, label, values) ==
    Table(<<LotID, label>>, [r \in 1..Len(values) |-> <<Txt(lot_id), values[r]>>])

\* extract_rg_data (it returns an empty DataFrame, never None)
extract_rg_data(file) ==
    LET df == file.df
        name == file.name
        rg_pos == locate_rg_header(df)
        test_no_row == TestNoScanRG(df, 0, 0)
        rg_values == RGValues(df, test_no_row + 1, rg_pos[2])
    IN  IF ~file.readable
        THEN Outcome("df", "exception", -1, <<>>, <<>>, -1, EmptyTable,
                     <<LogEntry("error", "rg:exception", name)>>)
        ELSE IF rg_pos = <<-1, -1>>
        THEN Outcome("df", "no_rg", -1, <<>>, <<>>, -1, EmptyTable,
                     <<LogEntry("warning", "rg:no_rg", name)>>)
        ELSE IF test_no_row = -1
        THEN Outcome("df", "no_test_no", rg_pos[2], <<>>, <<>>, -1, EmptyTable,
                     <<LogEntry("warning", "rg:no_test_no", name)>>)
        ELSE IF rg_values = <<>>
        THEN Outcome("df", "empty", rg_pos[2], <<>>, <<>>, test_no_row, EmptyTable,
                     <<LogEntry("warning", "rg:no_values", name)>>)
        ELSE Outcome("df", "ok", rg_pos[2], <<>>, <<[col |-> rg_pos[2], name |-> RGCol]>>,
                     test_no_row, ValueTable(Stem(name), RGCol, rg_values), <<>>)

(***************************************************************************)
(* DVDS: extract_dvds_data                                                 *)
(***************************************************************************)
\* the test of the DVDS scan of row 1
IsDvdsCell(v) == ~IsNa(v) /\ Upper(Strip(Str(v))) = DVDS

RECURSIVE DvdsScan(_, _)
DvdsScan(df, i) ==
    IF i >= df.ncols THEN -1
    ELSE IF IsDvdsCell(Cell(df, 1, i)) THEN i ELSE DvdsScan(df, i + 1)

\* the fixed rows of the DVDS layout
DvdsUnitRow == 6

DvdsTestNoRow == 18

DvdsDataStartRow == 19

\* the label of the value column: f'DVDS({unit_value})'
DvdsLabel(unit_value) == DVDS \o <<"(">> \o Str(unit_value) \o <<")">>

\* dvds_values: missing cells are skipped, numbers kept, texts kept when
\* float() parses them
RECURSIVE DvdsValues(_, _, _)
DvdsValues(df, i, col) ==
    IF i >= df.nrows THEN <<>>
    ELSE LET v == Cell(df, i, col)
         IN  (IF v.k = "num" THEN <<Num(v.n)>>
              ELSE IF v.k = "str" /\ ParseFloat(v.s).ok
                   THEN <<Num(ParseFloat(v.s).v)>>
                   ELSE <<>>)
             \o DvdsValues(df, i + 1, col)

\* the warnings for the texts float() rejects
RECURSIVE DvdsValueWarnings(_, _, _, _)
DvdsValueWarnings(df, i, col, name) ==
    IF i >= df.nrows THEN <<>>
    ELSE (IF Cell(df, i, col).k = "str" /\ ~ParseFloat(Cell(df, i, col).s).ok
          THEN <<LogEntry("warning", "dvds:not_numeric", name)>> ELSE <<>>)
         \o DvdsValueWarnings(df, i + 1, col, name)

\* os.path.splitext(filename)[0]
SplitExtRoot(s) ==
    LET d == LastDot(s, Len(s))
    IN  IF d > 1 THEN SubSeq(s, 1, d - 1) ELSE s

\* extract_dvds_data (an empty DataFrame on every failure); df.iloc on a row
\* the grid does not have raises IndexError, which the except clause logs
extract_dvds_data(file) ==
    LET df == file.df
        name == file.name
        dvds_col == DvdsScan(df, 0)
        w0 == IF Strip(Str(Cell(df, DvdsTestNoRow, 0))) # TestNoDot
              THEN <<LogEntry("warning", "dvds:row19_not_test_no", name)>> ELSE <<>>
        dvds_values == DvdsValues(df, DvdsDataStartRow, dvds_col)
        w1 == w0 \o DvdsValueWarnings(df, DvdsDataStartRow, dvds_col, name)
    IN  IF ~file.readable \/ df.nrows < 2
        THEN Outcome("df", "exception", -1, <<>>, <<>>, -1, EmptyTable,
                     <<LogEntry("error", "dvds:exception", name)>>)
        ELSE IF dvds_col = -1
        THEN Outcome("df", "no_dvds", -1, <<>>, <<>>, -1, EmptyTable,
                     <<LogEntry("error", "dvds:no_dvds", name)>>)
        ELSE IF df.nrows <= DvdsUnitRow \/ df.nrows <= DvdsTestNoRow
        THEN Outcome("df", "exception", dvds_col, <<>>, <<>>, -1, EmptyTable,
                     <<LogEntry("error", "dvds:exception", name)>>)
        ELSE IF dvds_values = <<>>
        THEN Outcome("df", "empty", dvds_col, <<>>, <<>>, DvdsTestNoRow, EmptyTable,
                     w1 \o <<LogEntry("warning", "dvds:no_values", name)>>)
        ELSE Outcome("df", "ok", dvds_col, <<>>,
                     <<[col |-> dvds_col, name |-> DvdsLabel(Cell(df, DvdsUnitRow, dvds_col))]>>,
                     DvdsTestNoRow,
                     ValueTable(SplitExtRoot(name),
                                DvdsLabel(Cell(df, DvdsUnitRow, dvds_col)), dvds_values),
                     w1)

(***************************************************************************)
(* Merging and cleaning                                                    *)
(***************************************************************************)
\* the labels of cols that acc does not hold yet, appended to acc in order
RECURSIVE AddNewCols(_, _, _)
AddNewCols(acc, cols, k) ==
    IF k > Len(cols) THEN acc
    ELSE AddNewCols(IF ColIndex(acc, cols[k]) = 0 THEN Append(acc, cols[k]) ELSE acc,
                    cols, k + 1)

\* the union of the frames' columns, in first-seen order
RECURSIVE UnionCols(_, _, _)
UnionCols(frames, k, acc) ==
    IF k > Len(frames) THEN acc
    ELSE UnionCols(frames, k + 1, AddNewCols(acc, frames[k].cols, 1))

\* the rows of a table laid out under cols, a column the table lacks being
\* missing
RowsUnder(t, cols) ==
    [r \in 1..Len(t.rows) |->
        [i \in 1..Len(cols) |->
            IF ColIndex(t.cols, cols[i]) = 0 THEN NaN
            ELSE t.rows[r][ColIndex(t.cols, cols[i])]]]

RECURSIVE ConcatRows(_, _, _)
ConcatRows(frames, k, cols) ==
    IF k > Len(frames) THEN <<>>
    ELSE RowsUnder(frames[k], cols) \o ConcatRows(frames, k + 1, cols)

\* a concatenation that stacks the last frame first
ConcatLastFirst(frames) ==
    LET rev == [k \in 1..Len(frames) |-> frames[Len(frames) + 1 - k]]
    IN  Table(UnionCols(frames, 1, <<>>), ConcatRows(rev, 1, UnionCols(frames, 1, <<>>)))

\* pd.concat(frames, ignore_index=True)
Concat(frames) ==
    Table(UnionCols(frames, 1, <<>>), ConcatRows(frames, 1, UnionCols(frames, 1, <<>>)))

\* df[cols]
SelectCols(t, cols) == Table(cols, RowsUnder(t, cols))

\* df['NUM'] = range(1, len(df) + 1): a new last column, or the NUM column
\* overwritten in place
AssignNum(t) ==
    IF ColIndex(t.cols, NUM) = 0
    THEN Table(Append(t.cols, NUM), [r \in 1..Len(t.rows) |-> Append(t.rows[r], Num(r))])
    ELSE Table(t.cols,
               [r \in 1..Len(t.rows) |->
                   [i \in 1..Len(t.cols) |->
                       IF i = ColIndex(t.cols, NUM) THEN Num(r) ELSE t.rows[r][i]]])

\* df.insert(0, 'NUM', range(1, len(df) + 1)), for a table without NUM
InsertNum(t) ==
    Table(<<NUM>> \o t.cols, [r \in 1..Len(t.rows) |-> <<Num(r)>> \o t.rows[r]])

\* df.dropna(subset=cols): the rows that miss none of cols
DropNa(t, cols) ==
    Table(t.cols,
          SelectSeq(t.rows,
                    LAMBDA row : \A i \in 1..Len(cols) :
                                    ~IsNa(row[ColIndex(t.cols, cols[i])])))

\* the labels of cols other than NUM and lot_ID
OtherCols(cols) == SelectSeq(cols, LAMBDA c : c # NUM /\ c # LotID)

\* merge_all_dc_data (the caller passes a non-empty list)
merge_all_dc_data(data_frames) ==
    IF data_frames = <<>> THEN EmptyTable ELSE Concat(data_frames)

\* the numbering-then-filtering steps of clean_and_format_dc
NumberAndFilterDC(df) == DropNa(InsertNum(df), <<LotID>>)

\* df['lot_ID'] = df['lot_ID'].astype(str)
LotIdAsStr(t) ==
    Table(t.cols,
          [r \in 1..Len(t.rows) |->
              [i \in 1..Len(t.cols) |->
                  IF i = ColIndex(t.cols, LotID) THEN Txt(Str(t.rows[r][i]))
                  ELSE t.rows[r][i]]])

\* clean_and_format_dc; df.insert raises ValueError when a NUM column exists
\* already, and the except clause returns the table as it is
clean_and_format_dc(df) ==
    IF IsEmpty(df) THEN df
    ELSE IF ColIndex(df.cols, NUM) # 0 THEN df
    ELSE LET t == LotIdAsStr(NumberAndFilterDC(df))
         IN  SelectCols(t, <<NUM, LotID>> \o OtherCols(t.cols))

\* the columns whose label contains DVDS
DvdsColumns(cols) == SelectSeq(cols, LAMBDA c : Contains(c, DVDS))

\* merge_all_data
merge_all_data(data_list) ==
    LET valid_data_list == SelectSeq(data_list, LAMBDA t : ~IsEmpty(t))
        merged_df == AssignNum(Concat(valid_data_list))
    IN  IF valid_data_list = <<>> THEN EmptyTable
        ELSE SelectCols(merged_df, <<NUM, LotID>> \o DvdsColumns(merged_df.cols))

\* pd.to_numeric(value, errors='coerce')
ToNumeric(v) ==
    IF v.k = "str"
    THEN IF ParseFloat(v.s).ok THEN Num(ParseFloat(v.s).v) ELSE NaN
    ELSE v

\* one column coerced to numeric, then the rows that miss it dropped
RECURSIVE CoerceAndDrop(_, _, _)
CoerceAndDrop(t, cols, k) ==
    IF k > Len(cols) THEN t
    ELSE CoerceAndDrop(
             DropNa(Table(t.cols,
                          [r \in 1..Len(t.rows) |->
                              [i \in 1..Len(t.cols) |->
                                  IF i = ColIndex(t.cols, cols[k])
                                  THEN ToNumeric(t.rows[r][i]) ELSE t.rows[r][i]]]),
                    <<cols[k]>>),
             cols, k + 1)

\* clean_and_format of the DVDS cleaner
clean_and_format(df) ==
    IF IsEmpty(df) THEN df
    ELSE AssignNum(CoerceAndDrop(DropNa(df, DvdsColumns(df.cols)),
                                 DvdsColumns(df.cols), 1))

\* the bounds of a valid RG value
RgLowerLimit == 0

RgUpperLimit == 1000

\* a clean step that keeps the RG values equal to a limit
clean_rg_within_limits(df) ==
    IF IsEmpty(df) THEN df
    ELSE LET t == SelectCols(AssignNum(df), <<NUM, LotID, RGCol>>)
             kept == Table(t.cols,
                           SelectSeq(t.rows,
                                     LAMBDA row : /\ row[3].k = "num"
                                                  /\ row[3].n >= RgLowerLimit
                                                  /\ row[3].n <= RgUpperLimit))
         IN  AssignNum(kept)

\* clean_and_format_rg
clean_and_format_rg(df) ==
    IF IsEmpty(df) THEN df
    ELSE LET t == SelectCols(AssignNum(df), <<NUM, LotID, RGCol>>)
             kept == Table(t.cols,
                           SelectSeq(t.rows,
                                     LAMBDA row : /\ row[3].k = "num"
                                                  /\ row[3].n > RgLowerLimit
                                                  /\ row[3].n < RgUpperLimit))
         IN  AssignNum(kept)

(***************************************************************************)
(* The batch runs: process_all_dc_files, DVDSCleaner.process_all and       *)
(* RGCleaner.run (with merge_all_rg_data's extraction loop)                *)
(***************************************************************************)
VARIABLES
    kind,      \* the cleaner: "DC", "DVDS" or "RG"
    files,     \* the list the directory scan returns: [name, readable, df]
    pc,        \* position of the run: scan, extract, merge, clean, save, done
    i,         \* number of files the extraction loop has taken
    outs,      \* what each extraction returned, in the order of the loop
    frames,    \* all_data_frames / data_list / all_data
    log,       \* the logger calls at warning and error level, in order
    merged,    \* merged_df
    cleaned,   \* cleaned_df
    ret,       \* the value the run returns ("pending" until it returns)
    start_btn,      \* FTDataCleanerGUI.start_btn.isEnabled()
    dialogs,        \* number of modal message boxes open
    closed,         \* the main window has accepted a close event
    workers,        \* the DataCleanerWorker objects created, the last one
                    \* being self.worker_thread
    signals,        \* terminal signals emitted and queued for the GUI thread
    call,           \* the ExcelOptimizer call in flight
    returns         \* what the ExcelOptimizer calls made before it ended with

cleanerVars == <<kind, files, pc, i, outs, frames, log, merged, cleaned, ret>>

guiVars == <<start_btn, dialogs, closed, workers, signals>>

ioVars == <<call, returns>>

vars == <<cleanerVars, guiVars, ioVars>>

\* no window, no worker
NoGui ==
    /\ start_btn = TRUE
    /\ dialogs = 0
    /\ closed = TRUE
    /\ workers = <<>>
    /\ signals = <<>>

\* no ExcelOptimizer call
NoCall == call = [fn |-> "none"] /\ returns = <<>>

Kinds == {"DC", "DVDS", "RG"}

\* an extraction whose duplicate counters live on across the files of a run:
\* the final names carry the number of files extracted before
ExtractCountingFiles(k, file) ==
    LET out == CASE k = "DC" -> extract_dc_data(file)
                 [] k = "DVDS" -> extract_dvds_data(file)
                 [] OTHER -> extract_rg_data(file)
    IN  [out EXCEPT !.final_params =
            [j \in 1..Len(out.final_params) |->
                [col |-> out.final_params[j].col,
                 name |-> out.final_params[j].name \o NatToStr(Len(outs))]]]

\* the extraction of one file by the cleaner of the given kind
Extract(k, file) ==
    CASE k = "DC" -> extract_dc_data(file)
      [] k = "DVDS" -> extract_dvds_data(file)
      [] OTHER -> extract_rg_data(file)

\* a test that keeps every table, empty or not
KeepFrameNotNone(out) == out.ret # "None"

\* the test that guards the append of the extraction loops:
\*   df is not None and not df.empty   /   not df.empty
KeepFrame(out) == out.ret # "None" /\ ~IsEmpty(out.table)

\* a loop that a failed extraction ends
StopAtFailure(out, n, total) ==
    IF n < total /\ out.why = "ok" THEN "extract" ELSE "merge"

\* where the loop goes after a file, whatever its extraction returned: to the
\* next file, or past the loop after the last one
AfterFile(out, n, total) == IF n < total THEN "extract" ELSE "merge"

\* a merger that reports an empty list or all-empty tables as an error
MergeLogAsError(k, data_frames) ==
    IF \A n \in 1..Len(data_frames) : IsEmpty(data_frames[n])
    THEN <<LogEntry("error", "merge:exception", <<>>)>>
    ELSE <<>>

\* the warnings of the mergers: merge_all_dc_data warns of an empty list,
\* merge_all_data of an empty list and of a list of empty tables
MergeLog(k, data_frames) ==
    IF data_frames = <<>>
    THEN <<LogEntry("warning", "merge:nothing_to_merge", <<>>)>>
    ELSE IF k = "DVDS" /\ \A n \in 1..Len(data_frames) : IsEmpty(data_frames[n])
    THEN <<LogEntry("warning", "merge:all_empty", <<>>)>>
    ELSE <<>>

\* the merged table of the kind
Merge(k, data_frames) ==
    CASE k = "DC" -> merge_all_dc_data(data_frames)
      [] k = "DVDS" -> merge_all_data(data_frames)
      [] OTHER -> IF data_frames = <<>> THEN EmptyTable ELSE Concat(data_frames)

\* the cleaned table of the kind
Clean(k, df) ==
    CASE k = "DC" -> clean_and_format_dc(df)
      [] k = "DVDS" -> clean_and_format(df)
      [] OTHER -> clean_and_format_rg(df)

\* the value a run returns on failure and on success
Failure(k) == CASE k = "DC" -> "False" [] k = "DVDS" -> "" [] OTHER -> "None"

Success(k) == CASE k = "DC" -> "True" [] OTHER -> "output_file"

\* the log call of a run that ends early
RunLog(k, msg) ==
    LogEntry(IF k = "RG" THEN "warning" ELSE "error", msg, <<>>)

\* the directory scan has returned `files`: an empty list ends the run
Scan ==
    /\ pc = "scan"
    /\ IF files = <<>>
       THEN /\ pc' = "done"
            /\ ret' = Failure(kind)
            /\ log' = Append(log, RunLog(kind, "run:no_files"))
       ELSE /\ pc' = "extract"
            /\ UNCHANGED <<ret, log>>
    /\ UNCHANGED <<guiVars, ioVars>>
    /\ UNCHANGED <<kind, files, i, outs, frames, merged, cleaned>>

\* one turn of the extraction loop
ExtractFile ==
    /\ pc = "extract"
    /\ i < Len(files)
    /\ LET out == Extract(kind, files[i + 1])
       IN  /\ outs' = Append(outs, out)
           /\ log' = log \o out.log
           /\ frames' = IF KeepFrame(out) THEN Append(frames, out.table) ELSE frames
           /\ i' = i + 1
           /\ pc' = AfterFile(out, i + 1, Len(files))
    /\ UNCHANGED <<guiVars, ioVars>>
    /\ UNCHANGED <<kind, files, merged, cleaned, ret>>

\* after the loop: no frame ends the run, else the frames are merged, and an
\* empty merge ends the run
MergeAll ==
    /\ pc = "merge"
    /\ IF frames = <<>>
       THEN /\ pc' = "done"
            /\ ret' = Failure(kind)
            /\ log' = log \o (IF kind = "RG"
                              THEN <<RunLog(kind, "rg:nothing_to_merge"),
                                     RunLog(kind, "run:no_data")>>
                              ELSE <<RunLog(kind, "run:no_data")>>)
            /\ UNCHANGED merged
       ELSE /\ merged' = Merge(kind, frames)
            /\ IF IsEmpty(Merge(kind, frames))
               THEN /\ pc' = "done"
                    /\ ret' = Failure(kind)
                    /\ log' = Append(log, RunLog(kind, "run:merge_failed"))
               ELSE /\ pc' = "clean"
                    /\ UNCHANGED <<ret, log>>
    /\ UNCHANGED <<guiVars, ioVars>>
    /\ UNCHANGED <<kind, files, i, outs, frames, cleaned>>

\* the log call of the except clause of clean_and_format_dc, taken when
\* df.insert finds a NUM column
CleanLog(k, df) ==
    IF k = "DC" /\ ~IsEmpty(df) /\ ColIndex(df.cols, NUM) # 0
    THEN <<LogEntry("error", "dc:clean_exception", <<>>)>>
    ELSE <<>>

\* the merged table is cleaned; the DC and DVDS runs end on an empty result
\* (the RG run leaves that to its save step)
CleanAndFormat ==
    /\ pc = "clean"
    /\ cleaned' = Clean(kind, merged)
    /\ IF kind # "RG" /\ IsEmpty(Clean(kind, merged))
       THEN /\ pc' = "done"
            /\ ret' = Failure(kind)
            /\ log' = Append(log \o CleanLog(kind, merged), RunLog(kind, "run:clean_failed"))
       ELSE /\ pc' = "save"
            /\ log' = log \o CleanLog(kind, merged)
            /\ UNCHANGED ret
    /\ UNCHANGED <<guiVars, ioVars>>
    /\ UNCHANGED <<kind, files, i, outs, frames, merged>>

\* the result is written; the write succeeds or raises
SaveResult ==
    /\ pc = "save"
    /\ \E written \in BOOLEAN :
          IF IsEmpty(cleaned)
          THEN /\ ret' = Failure(kind)
               /\ log' = Append(log, LogEntry("warning", "save:nothing_to_save", <<>>))
          ELSE IF written
          THEN /\ ret' = Success(kind)
               /\ UNCHANGED log
          ELSE /\ ret' = Failure(kind)
               /\ log' = log \o (IF kind = "DVDS"
                                 THEN <<LogEntry("error", "save:exception", <<>>),
                                        LogEntry("error", "run:save_failed", <<>>)>>
                                 ELSE <<LogEntry("error", "save:exception", <<>>)>>)
    /\ pc' = "done"
    /\ UNCHANGED <<guiVars, ioVars>>
    /\ UNCHANGED <<kind, files, i, outs, frames, merged, cleaned>>

Next == Scan \/ ExtractFile \/ MergeAll \/ CleanAndFormat \/ SaveResult

\* the state of a run that is about to start on the given files
Start(k, fs) ==
    /\ NoGui
    /\ NoCall
    /\ kind = k
    /\ files = fs
    /\ pc = "scan"
    /\ i = 0
    /\ outs = <<>>
    /\ frames = <<>>
    /\ log = <<>>
    /\ merged = EmptyTable
    /\ cleaned = EmptyTable
    /\ ret = "pending"

\* a call of the merger of the given kind on a list of tables, outside a run
StartMerger(k, data_frames) ==
    /\ NoGui
    /\ NoCall
    /\ kind = k
    /\ files = <<>>
    /\ pc = "call"
    /\ i = 0
    /\ outs = <<>>
    /\ frames = data_frames
    /\ log = <<>>
    /\ merged = EmptyTable
    /\ cleaned = EmptyTable
    /\ ret = "pending"

\* the merger returns its table
CallMerger ==
    /\ pc = "call"
    /\ merged' = Merge(kind, frames)
    /\ log' = log \o MergeLog(kind, frames)
    /\ ret' = "df"
    /\ pc' = "returned"
    /\ UNCHANGED <<guiVars, ioVars>>
    /\ UNCHANGED <<kind, files, i, outs, frames, cleaned>>

NextMerger == CallMerger \/ Next

(***************************************************************************)
(* Input files                                                             *)
(***************************************************************************)
\* a grid from a set of <<position, cell>> entries
CellsOf(entries) ==
    LET present == {e \in entries : ~IsNa(e[2])}
    IN  [p \in {e[1] : e \in present} |-> (CHOOSE e \in present : e[1] = p)[2]]

File(name, readable, df) == [name |-> name, readable |-> readable, df |-> df]

\* the name of the k-th file of a list: odd positions carry a lot pattern
\* (FA4Z-248k.xlsx), even positions do not (lotk.xlsx)
FileName(k) ==
    IF k % 2 = 1
    THEN <<"F", "A", "4", "Z", "-", "2", "4", "8">> \o NatToStr(k % 10)
         \o <<".", "x", "l", "s", "x">>
    ELSE <<"l", "o", "t">> \o NatToStr(k % 10) \o <<".", "x", "l", "s", "x">>

VTH == <<"V", "T", "H">>

\* One parameter column of a generated DC grid: the cells of the parameter
\* row, the units row and the test-condition row, and whether the first data
\* cell of the column is missing.
Column(name, unit, cond, gap) == [name |-> name, unit |-> unit, cond |-> cond, gap |-> gap]

ColumnKinds ==
    { Column(Txt(VTH), NaN, NaN, FALSE),
      Column(Txt(VTH \o <<"1">>), NaN, NaN, FALSE),
      Column(Txt(<<" ">> \o VTH \o <<" ">>), Txt(<<" ", "V", " ">>), NaN, FALSE),
      Column(Txt(SAME), Txt(<<"V">>), NaN, FALSE),
      Column(NaN, NaN, NaN, FALSE),
      Column(Txt(<<" ", " ">>), Txt(<<"V">>), NaN, FALSE),
      Column(Txt(IDSS), Txt(<<"m", "A">>),
             Txt(<<"(", "V", "D", "S", ")", "4", "0", ".", "0", "V">>), FALSE),
      Column(Txt(<<"i", "s", "g", "s">>), Txt(<<" ">>), Txt(<<"a", "b", "c">>), FALSE),
      Column(Txt(ISGS), Txt(<<"n", "A">>), Txt(<<"2", "0", "V">>), FALSE),
      Column(Txt(LotID), NaN, NaN, TRUE) }

\* the data cell of a generated grid: a number that tells row and column
DataCell(r, c) == Num(10 * r + c)

\* the entries of top, and those of base at the positions top leaves free
Overlay(base, top) == top \cup {e \in base : \A t \in top : t[1] # e[1]}

\* A DC grid: the cells `markers` in columns 0 and 1, the parameter columns
\* from column 2 on (names in row 1, conditions in row 4, units in row 6),
\* the data cells from row 8 down to the last row, and the cells `header`
\* laid over them; nrows rows in all.
DcLayout(markers, columns, header, nrows) ==
    LET n == Len(columns)
        body == {<<<<1, 1 + c>>, columns[c].name>> : c \in 1..n}
                \cup {<<<<4, 1 + c>>, columns[c].cond>> : c \in 1..n}
                \cup {<<<<6, 1 + c>>, columns[c].unit>> : c \in 1..n}
                \cup {<<<<7 + r, 1 + c>>,
                        IF r = 1 /\ columns[c].gap THEN NaN ELSE DataCell(r, c)>> :
                      r \in 1..DataRows, c \in 1..n}
    IN  Grid(nrows, 2 + n,
             CellsOf({e \in Overlay(Overlay(body, markers), header) : e[1][1] < nrows}))

\* the marker at (1, 1)
UsualMarker == {<<<<1, 1>>, Txt(CONT)>>}

\* "Test No." at (7, 0)
UsualHeader == {<<<<7, 0>>, Txt(TestNoDot)>>}

\* the number of rows of the usual layout
UsualRows == 8 + DataRows

\* A DC grid of the usual layout: the marker in row 1 at column 1, the
\* parameter columns to its right, "Test No." in row 7 at column 0 and
\* DataRows data rows below it.
DcGrid(columns) == DcLayout(UsualMarker, columns, UsualHeader, UsualRows)

\* every DC file of the usual layout with ParamCols parameter columns
ResolveFiles ==
    {File(FileName(1), TRUE, DcGrid(cs)) : cs \in [1..ParamCols -> ColumnKinds]}

\* one file, cleaned by the DC cleaner
InitResolve == \E f \in ResolveFiles : Start("DC", <<f>>)

SpecResolve == InitResolve /\ [][Next]_vars

\* the parameter columns tried for the enrichment: the two enriched names in
\* upper, lower and mixed case, their conditions with a number in a text, a
\* number that ends with its point, no number, a numeric cell, no cell; and
\* names that are not enriched over a condition with a number
EnrichKinds ==
    { Column(Txt(IDSS), Txt(<<"m", "A">>),
             Txt(<<"(", "V", "D", "S", ")", "4", "0", ".", "0", "V">>), FALSE),
      Column(Txt(<<"i", "s", "g", "s">>), NaN, Txt(<<"2", "0", "V">>), FALSE),
      Column(Txt(<<" ", "I", "d", "s", "s", " ">>), Txt(<<"m", "A">>),
             Txt(<<" ", "5", ".", "V", "8">>), FALSE),
      Column(Txt(ISGS), Txt(<<"n", "A">>), Txt(<<"a", "b", "c">>), FALSE),
      Column(Txt(IDSS), NaN, NaN, FALSE),
      Column(Txt(ISGS), Txt(<<"n", "A">>), Num(25), FALSE),
      Column(Txt(VTH), Txt(<<"V">>), Txt(<<"3", "V">>), FALSE),
      Column(Txt(IDSS \o <<"X">>), NaN, Txt(<<"4", "0", "V">>), FALSE) }

\* every DC file of the usual layout with ParamCols columns of these kinds
EnrichFiles ==
    {File(FileName(1), TRUE, DcGrid(cs)) : cs \in [1..ParamCols -> EnrichKinds]}

InitEnrich == \E f \in EnrichFiles : Start("DC", <<f>>)

SpecEnrich == InitEnrich /\ [][Next]_vars

\* the cells tried at the marker positions (1, 0) and (1, 1)
MarkerCells ==
    { NaN, Txt(CONT), Txt(<<" ">> \o CONT \o <<" ">>), Txt(<<"c", "o", "n", "t">>),
      Txt(CONT \o <<"X">>) }

\* the header cells tried: none; the usual one; a lower-case one above a
\* proper one; two in one row and one below; a padded one without the dot
\* under a number; one inside a longer text above the units row; one in the
\* last row
HeaderKinds ==
    { {},
      UsualHeader,
      {<<<<7, 0>>, Txt(<<"t", "e", "s", "t", " ", "n", "o", ".">>)>>,
       <<<<8, 1>>, Txt(TestNoDot)>>},
      {<<<<7, 2>>, Txt(TestNoDot)>>, <<<<8, 0>>, Txt(TestNoDot)>>},
      {<<<<7, 1>>, Num(5)>>, <<<<8, 0>>, Txt(<<" ">> \o TestNo)>>},
      {<<<<3, 1>>, Txt(<<"N", "o", " ">> \o TestNoDot \o <<" ", "1">>)>>},
      {<<<<UsualRows - 1, 0>>, Txt(TestNoDot)>>} }

\* the numbers of rows tried
RowCounts == {1, 2, 6, UsualRows}

UsualColumn == Column(Txt(VTH), Txt(<<"V">>), NaN, FALSE)

\* DC files that vary the marker cells, the header cells and the row count
DcAnchorFiles ==
    {File(FileName(1), TRUE,
          DcLayout({<<<<1, 0>>, m[1]>>, <<<<1, 1>>, m[2]>>}, <<UsualColumn>>, h, n)) :
        m \in MarkerCells \X MarkerCells, h \in HeaderKinds, n \in RowCounts}

\* the RG cells tried: in row 1; padded and lower-case; twice in row 1; in
\* row 0 only; a longer text in row 1 and a mixed-case one in row 4; below
\* the rows the fallback reads; none
RgKinds ==
    { {<<<<1, 1>>, Txt(RG)>>},
      {<<<<1, 1>>, Txt(<<" ", "r", "g", " ">>)>>},
      {<<<<1, 2>>, Txt(RG)>>, <<<<1, 1>>, Txt(RG)>>},
      {<<<<0, 2>>, Txt(RG)>>},
      {<<<<1, 2>>, Txt(RG \o <<"X">>)>>, <<<<4, 0>>, Txt(<<"R", "g">>)>>},
      {<<<<5, 1>>, Txt(RG)>>},
      {} }

\* An RG grid of three columns: the RG cells, data cells in every column from
\* row 8 down, and the header cells laid over them.
RgLayout(rgcells, header, nrows) ==
    LET body == {<<<<7 + r, c>>, DataCell(r, c)>> : r \in 1..DataRows, c \in 0..2}
    IN  Grid(nrows, 3,
             CellsOf({e \in Overlay(Overlay(body, rgcells), header) : e[1][1] < nrows}))

RgAnchorFiles ==
    {File(FileName(1), TRUE, RgLayout(g, h, n)) :
        g \in RgKinds, h \in HeaderKinds, n \in {1, 6, UsualRows}}

mV == <<"m", "V">>

\* the rows tried for the "Test No." cell of column 0 of a DVDS grid: above
\* the fixed header row, on it, and below the first fixed data row
DvdsHeaderRows == {DvdsTestNoRow - 1, DvdsTestNoRow, DvdsDataStartRow + 1}

\* A DVDS grid of two columns: DVDS at (1, 1), the unit at (6, 1), "Test No."
\* at (h, 0), and numbers in column 1 from the row above the fixed header
\* row down to the last row.
DvdsAnchorLayout(h, unit, nrows) ==
    Grid(nrows, 2,
         CellsOf({e \in {<<<<1, 1>>, Txt(DVDS)>>, <<<<DvdsUnitRow, 1>>, unit>>,
                         <<<<h, 0>>, Txt(TestNoDot)>>}
                        \cup {<<<<r, 1>>, DataCell(r, 1)>> :
                                 r \in (DvdsTestNoRow - 1)..(nrows - 1)} :
                  e[1][1] < nrows}))

DvdsAnchorFiles ==
    {File(FileName(1), TRUE, DvdsAnchorLayout(h, u, DvdsDataStartRow + n)) :
        h \in DvdsHeaderRows, u \in {Txt(mV), NaN}, n \in {0, 1, 1 + DataRows}}

\* the DVDS name cells tried: in row 1; padded and lower-case; twice in row
\* 1; in row 0 only; a longer text in row 1 and a mixed-case one in row 4;
\* none
DvdsNameKinds ==
    { {<<<<1, 1>>, Txt(DVDS)>>},
      {<<<<1, 1>>, Txt(<<" ", "d", "v", "d", "s", " ">>)>>},
      {<<<<1, 2>>, Txt(DVDS)>>, <<<<1, 1>>, Txt(DVDS)>>},
      {<<<<0, 2>>, Txt(DVDS)>>},
      {<<<<1, 2>>, Txt(DVDS \o <<"X">>)>>, <<<<4, 0>>, Txt(<<"D", "v", "d", "s">>)>>},
      {} }

\* A DVDS grid of three columns: the name cells, the unit mV in row 6,
\* "Test No." at (18, 0) and numbers in columns 1 and 2 from row 19 down.
DvdsNameLayout(namecells, nrows) ==
    LET body == {<<<<DvdsUnitRow, c>>, Txt(mV)>> : c \in 1..2}
                \cup {<<<<DvdsTestNoRow, 0>>, Txt(TestNoDot)>>}
                \cup {<<<<DvdsTestNoRow + r, c>>, DataCell(r, c)>> :
                        r \in 1..DataRows, c \in 1..2}
    IN  Grid(nrows, 3, CellsOf({e \in Overlay(body, namecells) : e[1][1] < nrows}))

\* DVDS files that vary the name cells and the row count
DvdsNameFiles ==
    {File(FileName(1), TRUE, DvdsNameLayout(g, n)) :
        g \in DvdsNameKinds, n \in {1, 2, DvdsUnitRow, DvdsDataStartRow + DataRows}}

\* one file, cleaned by the DC, the RG or the DVDS cleaner
InitAnchor ==
    \/ \E f \in DcAnchorFiles : Start("DC", <<f>>)
    \/ \E f \in RgAnchorFiles : Start("RG", <<f>>)
    \/ \E f \in DvdsAnchorFiles : Start("DVDS", <<f>>)
    \/ \E f \in DvdsNameFiles : Start("DVDS", <<f>>)

SpecAnchor == InitAnchor /\ [][Next]_vars

\* A DVDS grid: the name cell at (1, 1), the unit cell at (6, 1), the cell
\* `corner` at (18, 0), and the data cells of column 1 from row 19 down.
DvdsLayout(namecell, unit, corner, data, nrows) ==
    Grid(nrows, 2,
         CellsOf({e \in {<<<<1, 1>>, namecell>>, <<<<DvdsUnitRow, 1>>, unit>>,
                         <<<<DvdsTestNoRow, 0>>, corner>>}
                        \cup {<<<<DvdsTestNoRow + r, 1>>, data[r]>> : r \in 1..Len(data)} :
                  e[1][1] < nrows}))

\* the data cells of a generated DVDS grid: DataRows numbers
DvdsData == [r \in 1..DataRows |-> DataCell(r, 1)]

\* What a directory may hold for each cleaner: [readable, df] entries (the
\* name of a file is given by its position in the list).
Entry(readable, df) == [readable |-> readable, df |-> df]

IdssColumn ==
    Column(Txt(IDSS), Txt(<<"m", "A">>),
           Txt(<<"(", "V", "D", "S", ")", "4", "0", ".", "0", "V">>), FALSE)

\* DC: a good file; one without "Test No."; one with a lower-case marker; one
\* that cannot be read; one whose parameter row names a column lot_ID and
\* misses its first value; one with another parameter; one whose header is
\* the last row; one of five rows
DcEntries ==
    { Entry(TRUE, DcGrid(<<UsualColumn, IdssColumn>>)),
      Entry(TRUE, DcLayout(UsualMarker, <<UsualColumn, IdssColumn>>, {}, UsualRows)),
      Entry(TRUE, DcLayout({<<<<1, 1>>, Txt(<<"c", "o", "n", "t">>)>>},
                           <<UsualColumn>>, UsualHeader, UsualRows)),
      Entry(FALSE, DcGrid(<<UsualColumn>>)),
      Entry(TRUE, DcGrid(<<Column(Txt(LotID), NaN, NaN, TRUE), UsualColumn>>)),
      Entry(TRUE, DcGrid(<<Column(Txt(VTH \o <<"1">>), NaN, NaN, FALSE)>>)),
      Entry(TRUE, DcLayout(UsualMarker, <<UsualColumn>>,
                           {<<<<UsualRows - 1, 0>>, Txt(TestNoDot)>>}, UsualRows)),
      Entry(TRUE, DcLayout(UsualMarker, <<UsualColumn>>, UsualHeader, 5)) }

\* DVDS: a good file; one with no unit; one with a padded unit; one with
\* another unit; one with a text, a missing and a numeric text among its
\* values; one without the DVDS cell; one of ten rows; one that cannot be read
DvdsEntries ==
    { Entry(TRUE, DvdsLayout(Txt(DVDS), Txt(mV), Txt(TestNoDot), DvdsData, 19 + DataRows)),
      Entry(TRUE, DvdsLayout(Txt(DVDS), NaN, Txt(TestNoDot), DvdsData, 19 + DataRows)),
      Entry(TRUE, DvdsLayout(Txt(<<"d", "v", "d", "s", " ">>), Txt(<<" ">> \o mV),
                             Txt(TestNo), DvdsData, 19 + DataRows)),
      Entry(TRUE, DvdsLayout(Txt(DVDS), Txt(<<"V">>), Txt(TestNoDot), DvdsData,
                             19 + DataRows)),
      Entry(TRUE, DvdsLayout(Txt(DVDS), Txt(mV), Txt(TestNoDot),
                             <<Txt(<<"x">>), NaN, Txt(<<" ", "7">>)>>, 22)),
      Entry(TRUE, DvdsLayout(Txt(RG), Txt(mV), Txt(TestNoDot), DvdsData, 19 + DataRows)),
      Entry(TRUE, DvdsLayout(Txt(DVDS), Txt(mV), Txt(TestNoDot), DvdsData, 10)),
      Entry(FALSE, DvdsLayout(Txt(DVDS), Txt(mV), Txt(TestNoDot), DvdsData, 19 + DataRows)) }

\* an RG grid whose RG column (column 1) holds the given data cells
RgGrid(header, data) ==
    Grid(8 + Len(data), 3,
         CellsOf({<<<<1, 1>>, Txt(RG)>>, <<<<6, 1>>, Txt(<<"R">>)>>}
                 \cup header
                 \cup {<<<<7 + r, 1>>, data[r]>> : r \in 1..Len(data)}))

\* RG: a good file; one with values outside the valid range; one with a text,
\* a missing and a numeric text among its values; one without "Test No."; one
\* without the RG cell; one that cannot be read
RgEntries ==
    { Entry(TRUE, RgGrid(UsualHeader, [r \in 1..DataRows |-> DataCell(r, 1)])),
      Entry(TRUE, RgGrid(UsualHeader, <<Num(0), Num(5), Num(RgUpperLimit), Num(-3), Num(999)>>)),
      Entry(TRUE, RgGrid(UsualHeader, <<Txt(<<"x">>), NaN, Txt(<<" ", "7">>)>>)),
      Entry(TRUE, RgGrid({}, <<Num(5)>>)),
      Entry(TRUE, RgLayout({}, UsualHeader, UsualRows)),
      Entry(FALSE, RgGrid(UsualHeader, <<Num(5)>>)) }

\* what a data cell may hold: a number, nothing, a text that is no number, a
\* text that reads as a number
DataKinds == {"number", "missing", "text", "numeric text"}

\* the data cell of the given kind at data row r, column c
DataCellOf(kd, r, c) ==
    CASE kd = "number" -> DataCell(r, c)
      [] kd = "missing" -> NaN
      [] kd = "text" -> Txt(<<"x">>)
      [] OTHER -> Txt(<<" ">> \o NatToStr(10 * r + c))

\* DC files of the usual layout with two parameter columns whose data cells
\* are of any kinds, and RG files whose RG column holds cells of any kinds
DataFiles(k) ==
    IF k = "DC"
    THEN {File(FileName(1), TRUE,
               DcLayout(UsualMarker, <<UsualColumn, IdssColumn>>,
                        UsualHeader \cup {<<<<7 + p[1], 1 + p[2]>>, DataCellOf(d[p], p[1], p[2])>> :
                                            p \in (1..DataRows) \X (1..2)},
                        UsualRows)) :
            d \in [(1..DataRows) \X (1..2) -> DataKinds]}
    ELSE {File(FileName(1), TRUE,
               RgGrid(UsualHeader, [r \in 1..DataRows |-> DataCellOf(d[r], r, 1)])) :
            d \in [1..DataRows -> DataKinds]}

\* one file, cleaned by the DC or by the RG cleaner
InitData == \E k \in {"DC", "RG"} : \E f \in DataFiles(k) : Start(k, <<f>>)

SpecData == InitData /\ [][Next]_vars

\* the parameter columns a file of a merged batch may have
MergeColumns ==
    { <<UsualColumn, IdssColumn>>,
      <<IdssColumn>>,
      <<Column(Txt(VTH \o <<"1">>), NaN, NaN, FALSE), UsualColumn>> }

\* the n-th file of a merged batch: a DC grid of the usual layout whose data
\* cells tell file, row and column
MergeFile(n, readable, columns) ==
    File(FileName(n), readable,
         DcLayout(UsualMarker, columns,
                  UsualHeader \cup {<<<<7 + r, 1 + c>>, Num(100 * n + 10 * r + c)>> :
                                      r \in 1..DataRows, c \in 1..Len(columns)},
                  UsualRows))

\* a batch of MergeFiles DC files of DataRows rows each, with the same or
\* different parameter columns, any of which may be unreadable
MergeBatches ==
    {[n \in 1..MergeFiles |-> MergeFile(n, rd[n], cs[n])] :
        rd \in [1..MergeFiles -> BOOLEAN], cs \in [1..MergeFiles -> MergeColumns]}

InitMerge == \E fs \in MergeBatches : Start("DC", fs)

SpecMerge == InitMerge /\ [][Next]_vars

\* the tables a merger may be handed: one with no column, one with columns
\* and no row, a DC table of one row, a DVDS table of one row
MergerTables ==
    { EmptyTable,
      Table(<<LotID, VTH>>, <<>>),
      Table(<<LotID, VTH>>, <<<<Txt(extract_batch_info(FileName(1))), DataCell(1, 1)>>>>),
      Table(<<LotID, DvdsLabel(Txt(mV))>>,
            <<<<Txt(extract_batch_info(FileName(2))), DataCell(1, 1)>>>>) }

\* a merger called on any list of at most MergeFiles tables
InitMerger ==
    \E k \in {"DC", "DVDS"} : \E n \in 0..MergeFiles : \E ts \in [1..n -> MergerTables] :
        StartMerger(k, ts)

Entries(k) ==
    CASE k = "DC" -> DcEntries [] k = "DVDS" -> DvdsEntries [] OTHER -> RgEntries

\* the files of a list of entries, named by position
NamedFiles(es) == [n \in 1..Len(es) |-> File(FileName(n), es[n].readable, es[n].df)]

\* a batch run of any cleaner on any list of at most MaxFiles files
Init ==
    \E k \in Kinds : \E n \in 0..MaxFiles : \E es \in [1..n -> Entries(k)] :
        Start(k, NamedFiles(es))

Spec == Init /\ [][Next]_vars

\* the batch runs, and the mergers called on their own
SpecMerger == (Init \/ InitMerger) /\ [][NextMerger]_vars

(***************************************************************************)
(* The GUI: FTDataCleanerGUI and its DataCleanerWorker threads             *)
(***************************************************************************)
\* no cleaner run is modelled step by step
NoRun ==
    /\ kind = "DC"
    /\ files = <<>>
    /\ pc = "off"
    /\ i = 0
    /\ outs = <<>>
    /\ frames = <<>>
    /\ log = <<>>
    /\ merged = EmptyTable
    /\ cleaned = EmptyTable
    /\ ret = "pending"

\* what get_selected_cleaner_type may return once validate_inputs has passed
CleanerTypes == {"DC", "DVDS", "RG"}

\* how the cleaner a worker runs may end: process_all_dc_files returns True
\* or False (process_all and run: a file name or nothing), or the
\* construction or the run of the cleaner raises
CleanerEnds == {"truthy", "falsy", "raises"}

\* the two terminal signals of a worker
Finished(success) == [signal |-> "finished", success |-> success]

ErrorOccurred == [signal |-> "error_occurred", success |-> FALSE]

\* the terminal signals of _run_dc_cleaner, _run_dvds_cleaner and
\* _run_rg_cleaner, in the order they are emitted
run_cleaner(end) ==
    CASE end = "truthy" -> <<Finished(TRUE)>>
      [] end = "falsy" -> <<Finished(FALSE)>>
      [] OTHER -> <<ErrorOccurred>>

\* a run that reports an exception and then reports failure as well
run_and_report_twice(cleaner_type, end) ==
    IF cleaner_type \in CleanerTypes
    THEN IF end = "raises" THEN <<ErrorOccurred, Finished(FALSE)>> ELSE run_cleaner(end)
    ELSE <<ErrorOccurred>>

\* the terminal signals of DataCleanerWorker.run
run(cleaner_type, end) ==
    IF cleaner_type \in CleanerTypes THEN run_cleaner(end) ELSE <<ErrorOccurred>>

\* DataCleanerWorker(cleaner_type, ...) after start(): at is where the thread
\* is ("run": inside run(), no terminal signal emitted yet; "emitted": inside
\* run(), past its emit; "returned": run() has returned; "terminated"), sent
\* the terminal signals it has emitted
Worker(cleaner_type) ==
    [cleaner_type |-> cleaner_type, at |-> "run", sent |-> <<>>, is_cancelled |-> FALSE]

\* QThread.isRunning() of self.worker_thread
IsRunning ==
    workers # <<>> /\ workers[Len(workers)].at \in {"run", "emitted"}

\* a click on the start button: start_cleaning. A failed validation or a
\* missing directory opens a warning box and returns.
start_cleaning ==
    /\ ~closed
    /\ dialogs = 0
    /\ start_btn
    /\ Len(workers) < MaxRuns
    /\ \E valid \in BOOLEAN : \E cleaner_type \in CleanerTypes :
          IF valid
          THEN /\ start_btn' = FALSE
               /\ workers' = Append(workers, Worker(cleaner_type))
               /\ UNCHANGED dialogs
          ELSE /\ dialogs' = dialogs + 1
               /\ UNCHANGED <<start_btn, workers>>
    /\ UNCHANGED <<closed, signals>>
    /\ UNCHANGED <<cleanerVars, ioVars>>

\* a worker thread runs its cleaner to the end and emits what run() emits;
\* the signals are queued for the GUI thread
WorkerRun(n) ==
    /\ ~closed
    /\ workers[n].at = "run"
    /\ \E end \in CleanerEnds :
          /\ workers' = [workers EXCEPT ![n].at = "emitted",
                                        ![n].sent = run(workers[n].cleaner_type, end)]
          /\ signals' = signals \o run(workers[n].cleaner_type, end)
    /\ UNCHANGED <<start_btn, dialogs, closed>>
    /\ UNCHANGED <<cleanerVars, ioVars>>

\* run() returns after its emit
WorkerReturn(n) ==
    /\ ~closed
    /\ workers[n].at = "emitted"
    /\ workers' = [workers EXCEPT ![n].at = "returned"]
    /\ UNCHANGED <<start_btn, dialogs, closed, signals>>
    /\ UNCHANGED <<cleanerVars, ioVars>>

\* the GUI thread delivers a queued finished signal: cleaning_finished
cleaning_finished ==
    /\ ~closed
    /\ signals # <<>>
    /\ Head(signals).signal = "finished"
    /\ signals' = Tail(signals)
    /\ start_btn' = TRUE
    /\ dialogs' = dialogs + 1
    /\ UNCHANGED <<closed, workers>>
    /\ UNCHANGED <<cleanerVars, ioVars>>

\* the GUI thread delivers a queued error_occurred signal: cleaning_error
cleaning_error ==
    /\ ~closed
    /\ signals # <<>>
    /\ Head(signals).signal = "error_occurred"
    /\ signals' = Tail(signals)
    /\ start_btn' = TRUE
    /\ dialogs' = dialogs + 1
    /\ UNCHANGED <<closed, workers>>
    /\ UNCHANGED <<cleanerVars, ioVars>>

\* the user closes a message box
DismissDialog ==
    /\ ~closed
    /\ dialogs > 0
    /\ dialogs' = dialogs - 1
    /\ UNCHANGED <<start_btn, closed, workers, signals>>
    /\ UNCHANGED <<cleanerVars, ioVars>>

\* DataCleanerWorker.cancel
cancel(w) == [w EXCEPT !.is_cancelled = TRUE, !.at = "terminated"]

\* the user closes the main window: closeEvent. With a running worker the
\* question box decides; Yes cancels the worker and accepts the event.
closeEvent ==
    /\ ~closed
    /\ dialogs = 0
    /\ IF IsRunning
       THEN \E reply \in {"Yes", "No"} :
               IF reply = "Yes"
               THEN /\ workers' = [workers EXCEPT ![Len(workers)] = cancel(@)]
                    /\ closed' = TRUE
               ELSE UNCHANGED <<workers, closed>>
       ELSE /\ closed' = TRUE
            /\ UNCHANGED workers
    /\ UNCHANGED <<start_btn, dialogs, signals>>
    /\ UNCHANGED <<cleanerVars, ioVars>>

NextGui ==
    \/ start_cleaning
    \/ \E n \in 1..Len(workers) : WorkerRun(n)
    \/ \E n \in 1..Len(workers) : WorkerReturn(n)
    \/ cleaning_finished
    \/ cleaning_error
    \/ DismissDialog
    \/ closeEvent

\* the window is shown with no worker yet; or a worker of a type the radio
\* buttons do not offer has been started the way start_cleaning starts one
InitGui ==
    /\ NoRun
    /\ NoCall
    /\ dialogs = 0
    /\ closed = FALSE
    /\ signals = <<>>
    /\ \/ start_btn = TRUE /\ workers = <<>>
       \/ start_btn = FALSE /\ workers = <<Worker("unknown")>>

SpecGui == InitGui /\ [][NextGui]_vars

\* threads are scheduled and the event loop of the GUI thread delivers the
\* queued signals
SpecGuiFair ==
    /\ SpecGui
    /\ WF_vars(\E n \in 1..Len(workers) : WorkerRun(n))
    /\ WF_vars(cleaning_finished)
    /\ WF_vars(cleaning_error)

(***************************************************************************)
(* ExcelOptimizer: read_excel_fast and write_excel_fast                    *)
(***************************************************************************)
\* no window is open
NoWindow == NoGui

\* the engine keyword a caller may pass ("unset": none)
Engines == {"unset", "calamine", "xlsxwriter", "openpyxl", "xlrd"}

\* the engine each function sets when the caller passed none
DefaultEngine(fn) == IF fn = "read_excel_fast" THEN "calamine" ELSE "xlsxwriter"

\* kwargs['engine'] once the default has been set
EngineUsed(fn, engine) == IF engine = "unset" THEN DefaultEngine(fn) ELSE engine

\* a handler that falls back to openpyxl after any failure
RetryAlways(fn, engine) == TRUE

\* the test of the except clauses: kwargs.get('engine') == 'calamine'
\* (== 'xlsxwriter' in write_excel_fast)
Retry(fn, engine) == engine = DefaultEngine(fn)

\* how a call ends when an attempt fails with no fallback left: the read
\* raises the error again, the write logs it and returns False
Failed(fn) == IF fn = "read_excel_fast" THEN "raise" ELSE "False"

\* how a call ends when an attempt succeeds
Succeeded(fn) == IF fn = "read_excel_fast" THEN "df" ELSE "True"

\* a caller calls read_excel_fast or write_excel_fast, with or without an
\* engine keyword
MakeCall ==
    /\ call.fn = "none"
    /\ Len(returns) < MaxCalls
    /\ \E fn \in {"read_excel_fast", "write_excel_fast"} : \E engine \in Engines :
          call' = [fn |-> fn, kwargs |-> engine, engine |-> engine, tried |-> <<>>]
    /\ UNCHANGED returns
    /\ UNCHANGED <<cleanerVars, guiVars>>

\* one execution of the function body: pd.read_excel or df.to_excel is tried
\* with the engine; it returns, or it raises and the except clause calls the
\* function again with openpyxl or ends the call
Attempt ==
    /\ call.fn # "none"
    /\ LET engine == EngineUsed(call.fn, call.engine)
           tried == Append(call.tried, engine)
       IN  \E ok \in BOOLEAN :
              IF ok
              THEN /\ returns' = Append(returns, [fn |-> call.fn, kwargs |-> call.kwargs,
                                                  tried |-> tried,
                                                  result |-> Succeeded(call.fn)])
                   /\ call' = [fn |-> "none"]
              ELSE IF Retry(call.fn, engine)
              THEN /\ call' = [call EXCEPT !.engine = "openpyxl", !.tried = tried]
                   /\ UNCHANGED returns
              ELSE /\ returns' = Append(returns, [fn |-> call.fn, kwargs |-> call.kwargs,
                                                  tried |-> tried,
                                                  result |-> Failed(call.fn)])
                   /\ call' = [fn |-> "none"]
    /\ UNCHANGED <<cleanerVars, guiVars>>

NextIo == MakeCall \/ Attempt

InitIo == NoRun /\ NoWindow /\ NoCall

SpecIo == InitIo /\ [][NextIo]_vars

(***************************************************************************)
(* Properties                                                              *)
(***************************************************************************)
\* the extractions of DC files the run has made so far
DcOuts == IF kind = "DC" THEN 1..Len(outs) ELSE {}

\* the cell of the units row (row 6) under a parameter column
UnitCell(df, col) == Cell(df, 6, col)

\* the values of the NUM column of a table, top to bottom
NumValues(t) == [r \in 1..Len(t.rows) |-> t.rows[r][ColIndex(t.cols, NUM)]]

\* a run has produced its final table
HasFinalTable == pc \in {"save", "done"} /\ ~IsEmpty(cleaned)

\* C1 (as claimed): whenever DC parameter resolution succeeds, no two entries
\* of the resolved parameter list share their final name.
C1_UniqueFinalNames ==
    \A k \in DcOuts :
        LET fp == outs[k].final_params
        IN  \A a, b \in 1..Len(fp) : a # b => fp[a].name # fp[b].name

\* C2 (as claimed): a non-empty table returned by extract_dc_data has exactly
\* the lot_ID column plus one column per resolved parameter, in that order.
C2_OneColumnPerParameter ==
    \A k \in DcOuts :
        LET fp == outs[k].final_params
            t == outs[k].table
        IN  (outs[k].ret = "df" /\ ~IsEmpty(t)) =>
                /\ Len(t.cols) = 1 + Len(fp)
                /\ t.cols[1] = LotID
                /\ \A j \in 1..Len(fp) : t.cols[j + 1] = fp[j].name

\* C3 (as claimed): the NUM column of every non-empty final table, of any of
\* the three cleaners, holds 1..N in row order, N being its number of rows.
C3_NumDense ==
    HasFinalTable =>
        /\ ColIndex(cleaned.cols, NUM) # 0
        /\ NumValues(cleaned) = [r \in 1..Len(cleaned.rows) |-> Num(r)]

\* C4 (as claimed): the DC clean step drops the rows with a missing lot_ID
\* first and numbers the remaining rows afterwards: its output has no row
\* with a missing lot_ID, keeps every other row of the merged table, and
\* numbers the rows it keeps 1..N in their order.
C4_DropThenNumber ==
    (kind = "DC" /\ pc \in {"save", "done"} /\ ~IsEmpty(merged)
       /\ ColIndex(cleaned.cols, NUM) # 0) =>
        LET lot == ColIndex(merged.cols, LotID)
            surviving == SelectSeq(merged.rows, LAMBDA row : ~IsNa(row[lot]))
        IN  /\ Len(cleaned.rows) = Len(surviving)
            /\ \A r \in 1..Len(cleaned.rows) :
                  /\ ~IsNa(cleaned.rows[r][ColIndex(cleaned.cols, LotID)])
                  /\ cleaned.rows[r][ColIndex(cleaned.cols, NUM)] = Num(r)

\* the columns of row 1 whose trimmed text is CONT, letter for letter
MarkerColumns(df) ==
    {c \in 0..(df.ncols - 1) :
        Cell(df, 1, c).k # "nan" /\ Strip(Str(Cell(df, 1, c))) = CONT}

\* C5: in a grid of two rows or more the marker column is the leftmost column
\* of row 1 whose trimmed text equals CONT exactly; when row 1 has no such
\* cell the extraction returns None for the missing marker (its error is
\* logged) with no parameter list and no table.
C5_LeftmostExactMarker ==
    \A k \in DcOuts :
        LET df == files[k].df
            out == outs[k]
        IN  (files[k].readable /\ df.nrows >= 2) =>
                IF MarkerColumns(df) = {}
                THEN /\ out.ret = "None"
                     /\ out.why = "no_cont"
                     /\ out.test_params = <<>>
                     /\ out.final_params = <<>>
                     /\ IsEmpty(out.table)
                     /\ \E n \in 1..Len(out.log) :
                           out.log[n] = LogEntry("error", "dc:no_cont", files[k].name)
                ELSE /\ out.cont_col \in MarkerColumns(df)
                     /\ \A c \in MarkerColumns(df) : out.cont_col <= c
                     /\ out.why # "no_cont"

\* C5 happens: row 1 reads "cont", " CONT " and the marker column is column 1
C5_Witness ==
    /\ kind = "DC"
    /\ Len(outs) = 1
    /\ Cell(files[1].df, 1, 0) = Txt(<<"c", "o", "n", "t">>)
    /\ Cell(files[1].df, 1, 1) = Txt(<<" ">> \o CONT \o <<" ">>)
    /\ outs[1].cont_col = 1
    /\ outs[1].why = "ok"

\* the cells of a grid whose text contains "Test No", as <<row, column>>
HeaderCells(df) ==
    {p \in (0..(df.nrows - 1)) \X (0..(df.ncols - 1)) :
        Contains(Str(Cell(df, p[1], p[2])), TestNo)}

\* whether p comes before q in row-major order
RowMajorBefore(p, q) == p[1] < q[1] \/ (p[1] = q[1] /\ p[2] <= q[2])

\* the extractions that reached the search for the header row
ReachedHeaderSearch ==
    {k \in 1..Len(outs) :
        \/ kind = "DC" /\ outs[k].why \notin {"exception", "rows_lt_2", "no_cont", "rows_lt_7"}
        \/ kind = "RG" /\ outs[k].why \notin {"exception", "no_rg"}}

\* C6: in the DC and the RG extraction the header row is the row of the first
\* cell, in row-major order, whose text contains "Test No"; when no cell
\* contains it the extraction fails for the missing header row and yields no
\* data.
C6_FirstHeaderCell ==
    \A k \in ReachedHeaderSearch :
        LET df == files[k].df
            out == outs[k]
        IN  IF HeaderCells(df) = {}
            THEN /\ out.why = "no_test_no"
                 /\ out.test_no_row = -1
                 /\ IsEmpty(out.table)
            ELSE /\ out.why # "no_test_no"
                 /\ \E p \in HeaderCells(df) :
                       /\ \A q \in HeaderCells(df) : RowMajorBefore(p, q)
                       /\ out.test_no_row = p[1]

\* C6 happens: "Test No." stands at (7, 2) and at (8, 0) and row 7 is taken
C6_Witness ==
    /\ kind = "DC"
    /\ Len(outs) = 1
    /\ HeaderCells(files[1].df) = {<<7, 2>>, <<8, 0>>}
    /\ outs[1].test_no_row = 7
    /\ outs[1].why = "ok"

\* the tables of the extractions that succeeded, in the order of the files
ExtractedTables ==
    LET good == SelectSeq(outs, LAMBDA o : o.why = "ok")
    IN  [n \in 1..Len(good) |-> good[n].table]

\* the total number of rows of a list of tables
RECURSIVE RowTotal(_)
RowTotal(ts) == IF ts = <<>> THEN 0 ELSE Len(Head(ts).rows) + RowTotal(Tail(ts))

\* C7: once the extraction loop is over, every file of the list has been
\* extracted, whatever the files before it returned; the merger has received
\* exactly the tables of the files whose extraction succeeded, in order, each
\* of them non-empty; and the merged table holds all their rows.
C7_FailuresIsolated ==
    pc \notin {"scan", "extract"} =>
        /\ Len(outs) = Len(files)
        /\ \A k \in 1..Len(files) : outs[k] = Extract(kind, files[k])
        /\ frames = ExtractedTables
        /\ \A n \in 1..Len(frames) : ~IsEmpty(frames[n])
        /\ (pc \in {"clean", "save"} \/ (pc = "done" /\ frames # <<>>)) =>
               Len(merged.rows) = RowTotal(ExtractedTables)

\* C7 happens: the first of two DC files has no "Test No." cell, the second
\* is extracted and the run ends with the second file's rows alone
C7_Witness ==
    /\ kind = "DC"
    /\ pc = "done"
    /\ Len(files) = 2
    /\ outs[1].why = "no_test_no"
    /\ outs[2].why = "ok"
    /\ Len(frames) = 1
    /\ Len(cleaned.rows) = DataRows
    /\ ret = "True"

\* the files of the list that can be read and hold "Test No" in no cell
LackingHeader == {k \in 1..Len(files) : files[k].readable /\ HeaderCells(files[k].df) = {}}

\* the files whose extraction failed: it returned None
FailedFiles == {k \in 1..Len(outs) : outs[k].ret = "None"}

\* the error-level log calls that name the given file
ErrorsNaming(name) == {n \in 1..Len(log) : log[n].level = "error" /\ log[n].file = name}

\* a finished DC run on a list in which exactly one file lacks "Test No."
OneFileLacksHeader ==
    kind = "DC" /\ pc = "done" /\ Cardinality(LackingHeader) = 1

\* C8 (as claimed): when exactly one file of a DC batch lacks "Test No.", the
\* run skips that file, merges the others, and its result carries the number
\* of skipped files: it is more than the bare success flag.
C8_ResultCarriesSkippedCount ==
    OneFileLacksHeader =>
        /\ \A k \in LackingHeader : outs[k].ret = "None"
        /\ frames = ExtractedTables
        /\ ret \notin {Success("DC"), Failure("DC")}

\* C8 (amended): when exactly one file of a DC batch lacks "Test No.", the run
\* skips that file and merges the others; its result is the bare success flag,
\* and the skipped files are reported by the log alone: every file whose
\* extraction failed is named by exactly one error-level log call, every
\* other file by none.
C8_SkippedFilesLogged ==
    OneFileLacksHeader =>
        /\ \A k \in LackingHeader : outs[k].ret = "None"
        /\ frames = ExtractedTables
        /\ frames # <<>> => Len(merged.rows) = RowTotal(ExtractedTables)
        /\ ret \in {Success("DC"), Failure("DC")}
        /\ \A k \in 1..Len(files) :
              Cardinality(ErrorsNaming(files[k].name)) = IF k \in FailedFiles THEN 1 ELSE 0

\* C8 happens: of two DC files the second lacks "Test No."; the run returns
\* True with the rows of the first
C8_Witness ==
    /\ OneFileLacksHeader
    /\ Len(files) = 2
    /\ LackingHeader = {2}
    /\ outs[1].why = "ok"
    /\ outs[2].why = "no_test_no"
    /\ Len(merged.rows) = DataRows
    /\ ret = "True"

\* the columns right of the marker whose cell of row 1 is a candidate name
CandidateColumns(df, cont_col) ==
    {c \in (cont_col + 1)..(df.ncols - 1) :
        /\ Cell(df, 1, c).k # "nan"
        /\ Strip(Str(Cell(df, 1, c))) # <<>>
        /\ Strip(Str(Cell(df, 1, c))) # SAME}

\* C9 (as claimed): the raw parameters are exactly the candidate cells right
\* of the marker, in ascending column order, each with its own source column
\* and its trimmed text; and the parameter columns of the extracted table
\* follow that order, the j-th holding the data of the j-th candidate's
\* source column.
C9_CandidatesInTableOrder ==
    \A k \in DcOuts :
        LET df == files[k].df
            out == outs[k]
            tp == out.test_params
        IN  out.why \notin {"exception", "rows_lt_2", "no_cont"} =>
                /\ {tp[j].col : j \in 1..Len(tp)} = CandidateColumns(df, out.cont_col)
                /\ \A a, b \in 1..Len(tp) : a < b => tp[a].col < tp[b].col
                /\ \A j \in 1..Len(tp) : tp[j].name = Strip(Str(Cell(df, 1, tp[j].col)))
                /\ out.why = "ok" =>
                      /\ Len(out.table.cols) = 1 + Len(tp)
                      /\ \A r \in 1..Len(out.table.rows) : \A j \in 1..Len(tp) :
                            out.table.rows[r][j + 1]
                                = Cell(df, out.test_no_row + r, tp[j].col)

\* whether a units-row cell holds no unit: missing, or blank
NoUnitIn(v) == v.k = "nan" \/ Strip(Str(v)) = <<>>

\* the text of a unit in parentheses
Annotation(v) == <<"(">> \o Strip(Str(v)) \o <<")">>

\* C10 (as claimed): a final name carries the trimmed unit in parentheses when
\* the units-row cell of its column holds one and no parenthesised annotation
\* when the cell is missing or blank, in the DC resolver and in the naming of
\* the DVDS column.
C10_UnitAttachment ==
    /\ \A k \in DcOuts :
          \A j \in 1..Len(outs[k].final_params) :
              LET p == outs[k].final_params[j]
                  u == UnitCell(files[k].df, p.col)
              IN  IF NoUnitIn(u) THEN ~EndsWith(p.name, <<")">>)
                  ELSE EndsWith(p.name, Annotation(u))
    /\ kind = "DVDS" =>
          \A k \in 1..Len(outs) :
              \A j \in 1..Len(outs[k].final_params) :
                  LET p == outs[k].final_params[j]
                      u == UnitCell(files[k].df, p.col)
                  IN  /\ p.name = IF NoUnitIn(u) THEN DVDS ELSE DVDS \o Annotation(u)
                      /\ outs[k].table.cols = <<LotID, p.name>>

\* whether positions b..e of s hold the first decimal number of s: digits
\* from the first digit of s on, then, if a point follows them, the point and
\* the digits after it
IsFirstNumberAt(s, b, e) ==
    /\ 1 <= b /\ b <= e /\ e <= Len(s)
    /\ IsDigit(s[b])
    /\ \A n \in 1..(b - 1) : ~IsDigit(s[n])
    /\ \E d \in b..e :
          /\ \A n \in b..d : IsDigit(s[n])
          /\ d < Len(s) => ~IsDigit(s[d + 1])
          /\ IF d < Len(s) /\ s[d + 1] = "."
             THEN /\ e >= d + 1
                  /\ \A n \in (d + 2)..e : IsDigit(s[n])
                  /\ e < Len(s) => ~IsDigit(s[e + 1])
             ELSE e = d

\* the first decimal number of the text of a cell, <<>> when the cell is
\* missing or its text holds no digit
FirstNumberOf(v) ==
    LET s == Str(v)
    IN  IF v.k = "nan" \/ \A n \in 1..Len(s) : ~IsDigit(s[n]) THEN <<>>
        ELSE LET be == CHOOSE be \in (1..Len(s)) \X (1..Len(s)) :
                          IsFirstNumberAt(s, be[1], be[2])
             IN  SubSeq(s, be[1], be[2])

\* the name a raw parameter is to carry after the enrichment
EnrichedAsClaimed(df, p) ==
    IF Upper(p.name) = IDSS \/ Upper(p.name) = ISGS
    THEN p.name \o FirstNumberOf(Cell(df, 4, p.col))
    ELSE p.name

\* the text s without the text t at its end
WithoutEnd(s, t) == IF EndsWith(s, t) THEN SubSeq(s, 1, Len(s) - Len(t)) ELSE s

\* the final name of a parameter without its unit annotation
Unannotated(df, p) ==
    IF NoUnitIn(UnitCell(df, p.col)) THEN p.name
    ELSE WithoutEnd(p.name, Annotation(UnitCell(df, p.col)))

\* C11: a raw name that is IDSS or ISGS in any case is followed directly by
\* the first decimal number of the test-condition cell (row 4) of its own
\* column, before the duplicate counter and the unit; any other name, and an
\* enriched name whose condition cell is missing or holds no number, is kept
\* as it is; and the extraction succeeds in every case.
C11_EnrichmentBestEffort ==
    \A k \in DcOuts :
        LET df == files[k].df
            out == outs[k]
        IN  (files[k].readable /\ out.why \notin {"rows_lt_2", "no_cont", "rows_lt_7", "no_test_no"}) =>
                /\ out.ret = "df"
                /\ Len(out.final_params) = Len(out.test_params)
                /\ \A j \in 1..Len(out.test_params) :
                      \E c \in {<<>>} \cup {NatToStr(n) : n \in 1..Len(out.test_params)} :
                          Unannotated(df, out.final_params[j])
                              = EnrichedAsClaimed(df, out.test_params[j]) \o c

\* C11 happens: "isgs" over "20V" is enriched to isgs20, " Idss " over
\* " 5.V8" to Idss5., and ISGS over "abc" stays ISGS
C11_Witness ==
    /\ kind = "DC"
    /\ Len(outs) = 1
    /\ outs[1].why = "ok"
    /\ Len(outs[1].final_params) = 3
    /\ outs[1].final_params[1].name = <<"i", "s", "g", "s", "2", "0">>
    /\ outs[1].final_params[2].name = <<"I", "d", "s", "s", "5", ".", "(", "m", "A", ")">>
    /\ outs[1].final_params[3].name = ISGS \o <<"(", "n", "A", ")">>

\* the enriched names of the raw parameters of an extraction, in order
EnrichedNames(k) ==
    [j \in 1..Len(outs[k].test_params) |->
        EnrichedAsClaimed(files[k].df, outs[k].test_params[j])]

\* how many parameters of the list carry the enriched name e
Occurrences(names, e) == Cardinality({j \in 1..Len(names) : names[j] = e})

\* whether text s starts with text t
StartsWith(s, t) == Len(s) >= Len(t) /\ SubSeq(s, 1, Len(t)) = t

IGSS == <<"I", "G", "S", "S">>

\* C12 (as claimed): when two parameters in adjacent source columns carry the
\* same enriched name, it starts with ISGS and no third parameter carries it,
\* the left one is renamed with IGSS in place of ISGS and the right one keeps
\* its name.
C12_AdjacentPairRelabeled ==
    \A k \in DcOuts :
        LET out == outs[k]
            tp == out.test_params
            e == EnrichedNames(k)
        IN  out.why = "ok" =>
                \A j \in 1..(Len(tp) - 1) :
                    (/\ tp[j + 1].col = tp[j].col + 1
                     /\ e[j] = e[j + 1]
                     /\ StartsWith(e[j], ISGS)
                     /\ Occurrences(e, e[j]) = 2) =>
                        /\ Unannotated(files[k].df, out.final_params[j])
                               = IGSS \o SubSeq(e[j], 5, Len(e[j]))
                        /\ Unannotated(files[k].df, out.final_params[j + 1]) = e[j + 1]

\* the position of parameter j among the parameters that carry its enriched
\* name, in column order
Rank(names, j) == Cardinality({n \in 1..j : names[n] = names[j]})

\* the parameters of an extraction that share their enriched name with
\* another one and have a unit
RepeatedWithUnit(k) ==
    {j \in 1..Len(outs[k].final_params) :
        /\ Occurrences(EnrichedNames(k), EnrichedNames(k)[j]) > 1
        /\ ~NoUnitIn(UnitCell(files[k].df, outs[k].final_params[j].col))}

\* C13 (as claimed): the final name of the k-th occurrence of a repeated name
\* is the name, then the unit in parentheses, then the counter k at the end.
C13_CounterAfterUnit ==
    \A k \in DcOuts : \A j \in RepeatedWithUnit(k) :
        LET e == EnrichedNames(k)
            p == outs[k].final_params[j]
        IN  /\ StartsWith(p.name, e[j] \o Annotation(UnitCell(files[k].df, p.col)))
            /\ EndsWith(p.name, NatToStr(Rank(e, j)))

\* C13 (amended): the final name of the k-th occurrence of a repeated name is
\* the name, directly followed by the counter k, then the unit in
\* parentheses; the counter starts at 1 for the first occurrence.
C13_CounterBeforeUnit ==
    \A k \in DcOuts : \A j \in RepeatedWithUnit(k) :
        LET e == EnrichedNames(k)
            p == outs[k].final_params[j]
        IN  p.name = e[j] \o NatToStr(Rank(e, j))
                     \o Annotation(UnitCell(files[k].df, p.col))

\* C13 happens: two ISGS columns over "20V" with the unit nA are named
\* ISGS201(nA) and ISGS202(nA)
C13_Witness ==
    /\ kind = "DC"
    /\ Len(outs) = 1
    /\ {1, 2} \subseteq RepeatedWithUnit(1)
    /\ outs[1].final_params[1].name
           = ISGS \o <<"2", "0", "1", "(", "n", "A", ")">>
    /\ outs[1].final_params[2].name
           = ISGS \o <<"2", "0", "2", "(", "n", "A", ")">>

\* C14: a name that occurs once in the enriched list gets no counter; a name
\* that occurs m > 1 times gets the counters 1, 2, ..., m in ascending column
\* order, the first occurrence included.
C14_CountersInColumnOrder ==
    \A k \in DcOuts :
        LET e == EnrichedNames(k)
            fp == outs[k].final_params
        IN  /\ Len(fp) \in {0, Len(e)}
            /\ \A j \in 1..Len(fp) :
                  Unannotated(files[k].df, fp[j])
                      = IF Occurrences(e, e[j]) = 1 THEN e[j]
                        ELSE e[j] \o NatToStr(Rank(e, j))

\* C14 happens: the raw names VTH, VTH and IDSS resolve to VTH1, VTH2 and an
\* IDSS name without counter
C14_Witness ==
    /\ kind = "DC"
    /\ Len(outs) = 1
    /\ Len(outs[1].final_params) = 3
    /\ outs[1].test_params[3].name = IDSS
    /\ outs[1].final_params[1].name = VTH \o <<"1">>
    /\ outs[1].final_params[2].name = VTH \o <<"2">>
    /\ outs[1].final_params[3].name
           = IDSS \o <<"4", "0", ".", "0", "(", "m", "A", ")">>

\* the row of the first cell, in row-major order, that contains "Test No"
HeaderRow(df) ==
    (CHOOSE p \in HeaderCells(df) : \A q \in HeaderCells(df) : RowMajorBefore(p, q))[1]

\* whether a cell holds a number, or a text that reads as one
IsNumeric(v) == v.k = "num" \/ (v.k = "str" /\ ParseFloat(v.s).ok)

\* the numbers that column col holds from row start down to the last row
NumbersFrom(df, start, col) ==
    LET below == [r \in 1..(IF df.nrows > start THEN df.nrows - start ELSE 0) |->
                     Cell(df, start + r - 1, col)]
        good == SelectSeq(below, IsNumeric)
    IN  [n \in 1..Len(good) |->
            IF good[n].k = "num" THEN good[n] ELSE Num(ParseFloat(good[n].s).v)]

\* the values of the second column of a table, top to bottom
ValueColumn(t) == [r \in 1..Len(t.rows) |-> t.rows[r][2]]

\* the source column of the last parameter that carries the final name c
\* (-1 when none does)
LastColumnNamed(fp, c) ==
    IF \E j \in 1..Len(fp) : fp[j].name = c
    THEN fp[CHOOSE j \in 1..Len(fp) :
                fp[j].name = c /\ \A n \in (j + 1)..Len(fp) : fp[n].name # c].col
    ELSE -1

\* the extractions that reached the data region
ReachedData == {k \in 1..Len(outs) : outs[k].why \in {"ok", "empty"}}

\* the data of a DC or RG extraction come from the rows below the header
\* row it located, all of them and no other
LocatedRegion(k) ==
    LET df == files[k].df
        out == outs[k]
        t == out.table
    IN  /\ out.test_no_row = HeaderRow(df)
        /\ kind = "DC" =>
              /\ Len(t.rows) = df.nrows - HeaderRow(df) - 1
              /\ \A r \in 1..Len(t.rows) : \A c \in 1..Len(t.cols) :
                    LastColumnNamed(out.final_params, t.cols[c]) # -1 =>
                        t.rows[r][c] = Cell(df, HeaderRow(df) + r,
                                            LastColumnNamed(out.final_params, t.cols[c]))
        /\ kind = "RG" =>
              ValueColumn(t) = NumbersFrom(df, HeaderRow(df) + 1, out.cont_col)

\* C15 (as claimed): in the DC, the DVDS and the RG extraction the data come
\* from the rows below the located header row, wherever it is: no row at or
\* above it gives a value and every row below it is taken.
C15_RegionBelowLocatedHeader ==
    \A k \in ReachedData :
        IF kind = "DVDS"
        THEN HeaderCells(files[k].df) # {} =>
                 ValueColumn(outs[k].table)
                     = NumbersFrom(files[k].df, HeaderRow(files[k].df) + 1, outs[k].cont_col)
        ELSE LocatedRegion(k)

\* C15 (amended): in the DC and the RG extraction the data come from the rows
\* below the located header row, wherever it is, all of them and no other;
\* the DVDS extraction locates no header row: its data come from the fixed
\* row 19 down to the last row, wherever the grid holds "Test No.".
C15_RegionLocatedOrFixed ==
    \A k \in ReachedData :
        IF kind = "DVDS"
        THEN ValueColumn(outs[k].table)
                 = NumbersFrom(files[k].df, DvdsDataStartRow, outs[k].cont_col)
        ELSE LocatedRegion(k)

\* C15 happens: a DVDS grid holds "Test No." in row 20 and the extraction
\* takes the values of rows 19, 20 and 21
C15_Witness ==
    /\ kind = "DVDS"
    /\ Len(outs) = 1
    /\ outs[1].why = "ok"
    /\ HeaderCells(files[1].df) = {<<DvdsDataStartRow + 1, 0>>}
    /\ ValueColumn(outs[1].table)
           = [r \in 1..3 |-> DataCell(DvdsDataStartRow + r - 1, 1)]

\* a cell after numeric coercion: a number keeps its value, a text that
\* reads as a number takes it, anything else is missing
Coerced(v) ==
    IF v.k = "num" THEN v
    ELSE IF v.k = "str" /\ ParseFloat(v.s).ok THEN Num(ParseFloat(v.s).v)
    ELSE NaN

\* the number of rows of a grid below its header row
RowsBelowHeader(df) == df.nrows - HeaderRow(df) - 1

\* C16 (as claimed): every parameter cell of an extracted table is a number
\* or missing: each row of the data region is kept, a cell that does not read
\* as a number is missing in place, a number keeps its value (DC and RG).
C16_NumericOrMissing ==
    \A k \in ReachedData :
        LET df == files[k].df
            out == outs[k]
            t == out.table
        IN  /\ kind = "DC" =>
                  /\ Len(t.rows) = RowsBelowHeader(df)
                  /\ \A r \in 1..Len(t.rows) : \A j \in 1..Len(out.final_params) :
                        t.rows[r][ColIndex(t.cols, out.final_params[j].name)]
                            = Coerced(Cell(df, HeaderRow(df) + r, out.final_params[j].col))
            /\ kind = "RG" =>
                  ValueColumn(t)
                      = [r \in 1..RowsBelowHeader(df) |->
                            Coerced(Cell(df, HeaderRow(df) + r, out.cont_col))]

\* the data rows of a grid, as offsets below the header row, that hold a
\* value in at least one of the given parameter columns
RowsWithValue(df, fp) ==
    {r \in 1..RowsBelowHeader(df) :
        \E j \in 1..Len(fp) : ~IsNa(Cell(df, HeaderRow(df) + r, fp[j].col))}

\* C17 (as claimed): the table extract_dc_data returns has no row whose
\* parameter values are all missing, and it has every row of the data region
\* that holds at least one value, in the order of the grid.
C17_NoAllMissingRow ==
    \A k \in DcOuts \cap ReachedData :
        LET df == files[k].df
            fp == outs[k].final_params
            t == outs[k].table
        IN  /\ Len(t.rows) = Cardinality(RowsWithValue(df, fp))
            /\ \A r \in 1..Len(t.rows) :
                  \E j \in 1..Len(fp) : ~IsNa(t.rows[r][ColIndex(t.cols, fp[j].name)])

\* the files of the run whose table the merger received, in processing order
KeptFiles == SelectSeq([k \in 1..Len(outs) |-> k], LAMBDA k : KeepFrame(outs[k]))

\* the number of rows of the frames before the j-th
RowsBefore(j) == RowTotal(SubSeq(frames, 1, j - 1))

\* the cell of a table row under a column label, missing when the table has
\* no such column
Under(t, row, label) ==
    IF ColIndex(t.cols, label) = 0 THEN NaN ELSE row[ColIndex(t.cols, label)]

\* C18: the merged table of a DC run holds the rows of the first extracted
\* table in their order, then those of the second, and so on in processing
\* order, each cell as extracted; the final table numbers exactly these rows
\* 1..N in that order, and each row carries the batch identifier of its file.
C18_MergeKeepsOrder ==
    (kind = "DC" /\ pc \in {"clean", "save", "done"} /\ frames # <<>>) =>
        /\ Len(merged.rows) = RowTotal(frames)
        /\ \A j \in 1..Len(frames) : \A r \in 1..Len(frames[j].rows) :
              \A c \in 1..Len(merged.cols) :
                  merged.rows[RowsBefore(j) + r][c]
                      = Under(frames[j], frames[j].rows[r], merged.cols[c])
        /\ pc \in {"save", "done"} =>
              /\ Len(cleaned.rows) = RowTotal(frames)
              /\ \A j \in 1..Len(frames) : \A r \in 1..Len(frames[j].rows) :
                    LET row == cleaned.rows[RowsBefore(j) + r]
                    IN  /\ Under(cleaned, row, NUM) = Num(RowsBefore(j) + r)
                        /\ Under(cleaned, row, LotID)
                             = Txt(extract_batch_info(files[KeptFiles[j]].name))
                        /\ \A c \in 1..Len(frames[j].cols) :
                              Under(cleaned, row, frames[j].cols[c])
                                  = frames[j].rows[r][c]

\* C18 happens: three files of two rows each, of different columns, have been
\* merged and cleaned into six rows
C18_Witness ==
    /\ kind = "DC"
    /\ pc = "done"
    /\ Len(frames) = 3
    /\ \A j \in 1..3 : Len(frames[j].rows) = 2
    /\ frames[1].cols # frames[2].cols
    /\ Len(cleaned.rows) = 6
    /\ ret = "True"

\* where a column label is first seen in the frames: the first frame that
\* has it, and its place among that frame's columns
FirstSeen(label) ==
    LET j == CHOOSE n \in 1..Len(frames) :
                 /\ ColIndex(frames[n].cols, label) # 0
                 /\ \A m \in 1..(n - 1) : ColIndex(frames[m].cols, label) = 0
    IN  <<j, ColIndex(frames[j].cols, label)>>

\* the labels of all the frames
FrameLabels == UNION {{f.cols[c] : c \in 1..Len(f.cols)} : f \in {frames[j] : j \in 1..Len(frames)}}

\* the columns of a table are the frames' columns in first-seen order, the
\* NUM column apart
UnionInFirstSeenOrder(t) ==
    LET cols == SelectSeq(t.cols, LAMBDA c : c # NUM)
    IN  /\ {cols[c] : c \in 1..Len(cols)} = FrameLabels
        /\ \A a, b \in 1..Len(cols) :
              a < b => \/ FirstSeen(cols[a])[1] < FirstSeen(cols[b])[1]
                       \/ /\ FirstSeen(cols[a])[1] = FirstSeen(cols[b])[1]
                          /\ FirstSeen(cols[a])[2] < FirstSeen(cols[b])[2]

\* a row of a frame whose lot_ID is a text and whose other values are numbers
IsWholeRow(f, row) ==
    \A c \in 1..Len(f.cols) :
        IF f.cols[c] = LotID THEN row[c].k = "str" ELSE row[c].k = "num"

\* a table holds a row of a frame: the frame's values under the frame's
\* columns, and missing under every other column but NUM
Retains(t, f, row) ==
    \E q \in 1..Len(t.rows) :
        \A c \in 1..Len(t.cols) :
            t.cols[c] # NUM => t.rows[q][c] = Under(f, row, t.cols[c])

\* C19 (as claimed): in a DC run and in a DVDS run, the merged table's columns
\* are the union of the extracted tables' columns in first-seen order, and
\* the final table retains every whole row of every extracted table, with
\* missing values under the columns its file lacks.
C19_DifferingSchemasKeepRows ==
    (kind \in {"DC", "DVDS"} /\ pc \in {"clean", "save", "done"} /\ ~IsEmpty(merged)) =>
        /\ UnionInFirstSeenOrder(merged)
        /\ pc \in {"save", "done"} =>
              \A j \in 1..Len(frames) : \A r \in 1..Len(frames[j].rows) :
                  IsWholeRow(frames[j], frames[j].rows[r])
                      => Retains(cleaned, frames[j], frames[j].rows[r])

\* a list of tables with nothing to merge: no table, or empty tables only
NothingToMerge(ts) == \A n \in 1..Len(ts) : IsEmpty(ts[n])

\* C20: merge_all_dc_data and merge_all_data, given an empty list or a list
\* of empty tables, return an empty table and log no error; a batch run whose
\* file list is empty ends at once, with no file extracted.
C20_NothingToMergeIsEmpty ==
    /\ (pc = "returned" /\ NothingToMerge(frames)) =>
          /\ IsEmpty(merged)
          /\ ret = "df"
          /\ \A n \in 1..Len(log) : log[n].level # "error"
    /\ (files = <<>> /\ pc \notin {"scan", "call", "returned"}) =>
          /\ pc = "done"
          /\ i = 0
          /\ outs = <<>>
          /\ frames = <<>>

\* C20 happens: the DVDS merger has returned from a list of two empty tables
C20_Witness ==
    /\ kind = "DVDS"
    /\ pc = "returned"
    /\ Len(frames) = 2
    /\ NothingToMerge(frames)
    /\ IsEmpty(merged)
    /\ log = <<LogEntry("warning", "merge:all_empty", <<>>)>>

\* C21: a DC grid with the marker, seven rows or more and a header row, whose
\* parameter row has no candidate to the right of the marker, is extracted
\* without failure: the parameter lists are empty and the table returned has
\* the single column lot_ID and one row, holding the batch identifier, for
\* each grid row below the header.
C21_NoCandidateIsNoFailure ==
    \A k \in DcOuts :
        LET df == files[k].df
            out == outs[k]
        IN  (out.why \notin {"exception", "rows_lt_2", "no_cont", "rows_lt_7", "no_test_no"}
               /\ CandidateColumns(df, out.cont_col) = {}) =>
                /\ out.ret = "df"
                /\ out.test_params = <<>>
                /\ out.final_params = <<>>
                /\ out.table.cols = <<LotID>>
                /\ out.table.rows
                     = [r \in 1..RowsBelowHeader(df) |->
                           <<Txt(extract_batch_info(files[k].name))>>]
                /\ \A n \in 1..Len(out.log) : out.log[n].level # "error"

\* C21 happens: a grid with data rows and no candidate has been extracted
C21_Witness ==
    /\ kind = "DC"
    /\ Len(outs) = 1
    /\ outs[1].cont_col = 1
    /\ CandidateColumns(files[1].df, 1) = {}
    /\ Len(outs[1].table.rows) = DataRows
    /\ outs[1].why = "ok"

\* the columns of a row whose trimmed, upper-cased text is the given name
NamedColumns(df, row, name) ==
    {c \in 0..(df.ncols - 1) :
        row < df.nrows /\ ~IsNa(Cell(df, row, c))
            /\ Upper(Strip(Str(Cell(df, row, c)))) = name}

\* the readable files, extracted so far by the DC or the DVDS cleaner, whose
\* grid is too short to have the units row (row 6)
ShortGrids ==
    {k \in 1..Len(outs) :
        kind \in {"DC", "DVDS"} /\ files[k].readable /\ files[k].df.nrows < 7}

\* the outcomes of a grid that is too short: the two row-count returns of
\* extract_dc_data, the except clause of extract_dvds_data
InsufficientRows == IF kind = "DC" THEN {"rows_lt_2", "rows_lt_7"} ELSE {"exception"}

\* the name cell of row 1 is there: the marker of a DC grid, DVDS of a DVDS grid
HasNameCell(df) ==
    IF kind = "DC" THEN MarkerColumns(df) # {} ELSE NamedColumns(df, 1, DVDS) # {}

\* C22 (as claimed): every DC or DVDS grid with fewer than seven rows fails
\* with the insufficient-rows outcome, and yields no table.
C22_ShortGridInsufficientRows ==
    \A k \in ShortGrids :
        /\ outs[k].why \in InsufficientRows
        /\ IsEmpty(outs[k].table)

\* C22 (amended): a DC or DVDS grid with fewer than seven rows yields no
\* table, logs an error and gives the merger nothing; the outcome is the
\* insufficient-rows one when the grid has fewer than two rows or its row 1
\* holds the name cell, and the missing-name outcome otherwise, the name
\* being looked for before the units row is read.
C22_ShortGridSkipped ==
    /\ \A k \in ShortGrids :
          LET df == files[k].df
              out == outs[k]
          IN  /\ IsEmpty(out.table)
              /\ out.final_params = <<>>
              /\ \E n \in 1..Len(out.log) : out.log[n].level = "error"
              /\ IF df.nrows < 2 \/ HasNameCell(df)
                 THEN out.why \in InsufficientRows
                 ELSE out.why = (IF kind = "DC" THEN "no_cont" ELSE "no_dvds")
    /\ (ShortGrids = 1..Len(files) /\ pc \notin {"scan", "extract"}) => frames = <<>>

\* C22 happens: a DC grid of six rows with its marker, and nothing kept of it
C22_Witness ==
    /\ kind = "DC"
    /\ ShortGrids = {1}
    /\ files[1].df.nrows = 6
    /\ MarkerColumns(files[1].df) # {}
    /\ outs[1].why = "rows_lt_7"
    /\ pc = "done"
    /\ frames = <<>>

\* the least number of a non-empty set of numbers
Least(S) == CHOOSE x \in S : \A y \in S : x <= y

\* the leading rows, the fallback scan's, that hold the name
FallbackHits(df, name) ==
    {r \in 0..(Min(FallbackRows, df.nrows) - 1) : NamedColumns(df, r, name) # {}}

\* the column of the name where row 1 is scanned from the left (-1: none)
ColumnInRow1(df, name) ==
    IF NamedColumns(df, 1, name) # {} THEN Least(NamedColumns(df, 1, name)) ELSE -1

\* the column of the name where row 1 is scanned first and the leading rows
\* after it (-1: none)
ColumnWithFallback(df, name) ==
    IF NamedColumns(df, 1, name) # {} THEN Least(NamedColumns(df, 1, name))
    ELSE IF FallbackHits(df, name) # {}
    THEN Least(NamedColumns(df, Least(FallbackHits(df, name)), name))
    ELSE -1

\* the readable files extracted so far by a single-parameter cleaner
NamedOuts ==
    {k \in 1..Len(outs) : kind \in {"RG", "DVDS"} /\ files[k].readable}

\* the name a single-parameter cleaner looks for, and its outcome for none
TargetName == IF kind = "RG" THEN RG ELSE DVDS

NoName == IF kind = "RG" THEN "no_rg" ELSE "no_dvds"

\* C23 (as claimed): the RG and the DVDS cleaner take the leftmost cell of
\* row 1 whose trimmed, upper-cased text is the name; when row 1 has none,
\* the first such cell of the leading rows; when there is none either, the
\* file yields no data for the missing name.
C23_NamedColumnWithFallback ==
    \A k \in NamedOuts :
        LET df == files[k].df
            out == outs[k]
        IN  df.nrows >= 2 =>
               IF ColumnWithFallback(df, TargetName) = -1
               THEN out.why = NoName /\ IsEmpty(out.table)
               ELSE out.why # NoName /\ out.cont_col = ColumnWithFallback(df, TargetName)

\* C23 (amended): the RG cleaner does as claimed; the DVDS cleaner scans row
\* 1 only, with no fallback: a grid whose row 1 lacks the name yields no data
\* for the missing name wherever else the name stands (and a grid of one row
\* yields no data through the exception handler).
C23_FallbackInRgOnly ==
    \A k \in NamedOuts :
        LET df == files[k].df
            out == outs[k]
            col == IF kind = "RG" THEN ColumnWithFallback(df, RG)
                   ELSE ColumnInRow1(df, DVDS)
        IN  IF kind = "DVDS" /\ df.nrows < 2
            THEN out.why = "exception" /\ IsEmpty(out.table)
            ELSE IF col = -1
            THEN /\ out.why = NoName
                 /\ IsEmpty(out.table)
                 /\ out.cont_col = -1
            ELSE out.why # NoName /\ out.cont_col = col

\* C23 happens: an RG grid whose row 1 lacks the name and whose row 0 holds
\* it has been extracted with the column of row 0
C23_Witness ==
    /\ kind = "RG"
    /\ Len(outs) = 1
    /\ NamedColumns(files[1].df, 1, RG) = {}
    /\ NamedColumns(files[1].df, 0, RG) = {2}
    /\ outs[1].cont_col = 2
    /\ outs[1].why = "ok"

Unreadable == {k \in 1..Len(outs) : ~files[k].readable}

\* the log entry of the except clause of an extraction
ReadErrorEntry(k) ==
    LogEntry("error",
             CASE kind = "DC" -> "dc:exception"
               [] kind = "DVDS" -> "dvds:exception"
               [] OTHER -> "rg:exception",
             files[k].name)

\* C25 (as claimed): a read that raises reaches the caller of the extraction
\* as the error it is: the extraction returns no value, neither the None nor
\* the empty table that stand for a file without data.
C25_ReadErrorSurfaced ==
    \A k \in Unreadable : outs[k].ret \notin {"None", "df"}

\* C25 (amended): a read that raises is caught inside the extraction: the
\* except clause logs one error naming the file, and the extraction returns
\* what it returns for a file without data (None in the DC cleaner, an empty
\* table in the others); the caller skips the file and goes on with the next.
C25_ReadErrorLoggedAndSkipped ==
    /\ \A k \in Unreadable :
          /\ outs[k].ret = (IF kind = "DC" THEN "None" ELSE "df")
          /\ IsEmpty(outs[k].table)
          /\ outs[k].why = "exception"
          /\ outs[k].log = <<ReadErrorEntry(k)>>
          /\ \E n \in 1..Len(log) : log[n] = ReadErrorEntry(k)
    /\ (Unreadable = 1..Len(outs) /\ outs # <<>>) => frames = <<>>
    /\ (Unreadable # {} /\ pc \notin {"scan", "extract"}) => Len(outs) = Len(files)

\* C25 happens: the first file of a DC run could not be read, the second was
\* extracted, and the run succeeded
C25_Witness ==
    /\ kind = "DC"
    /\ Len(outs) = 2
    /\ Unreadable = {1}
    /\ outs[2].why = "ok"
    /\ Len(frames) = 1
    /\ ret = "True"

\* the places of a file name where the lot pattern matches
PatternPlaces(name) == {p \in 1..Len(name) : LotPatternAt(name, p)}

\* the batch identifier as claimed: the first match of the lot pattern, or
\* the name without its extension
ClaimedBatchId(name) ==
    IF PatternPlaces(name) # {}
    THEN SubSeq(name, Least(PatternPlaces(name)), Least(PatternPlaces(name)) + 8)
    ELSE Stem(name)

\* C26 (as claimed): every row of the table extract_dc_data returns for a
\* file carries, in its lot_ID column, the one batch identifier derived from
\* the file's name: the first match of the lot pattern, else the stem.
C26_OneBatchIdPerFile ==
    \A k \in DcOuts :
        \A r \in 1..Len(outs[k].table.rows) :
            Under(outs[k].table, outs[k].table.rows[r], LotID)
                = Txt(ClaimedBatchId(files[k].name))

\* the rows of the merged RG table whose value is above 0 and below 1000,
\* as <<lot_ID, value>> pairs
RgRowsInRange ==
    LET pairs == [r \in 1..Len(merged.rows) |->
                     <<Under(merged, merged.rows[r], LotID),
                       Under(merged, merged.rows[r], RGCol)>>]
    IN  SelectSeq(pairs, LAMBDA q : q[2].k = "num" /\ q[2].n > 0 /\ q[2].n < 1000)

\* C27: the table the RG clean step returns for a non-empty merged table has
\* the columns NUM, lot_ID, RG(R) in this order; its rows are the merged rows
\* whose RG value is above 0 and below 1000, in their order, numbered 1..N
\* after the others were removed.
C27_RgFinalTable ==
    (kind = "RG" /\ pc \in {"save", "done"} /\ ~IsEmpty(merged)) =>
        /\ cleaned.cols = <<NUM, LotID, RGCol>>
        /\ cleaned.rows
             = [r \in 1..Len(RgRowsInRange) |->
                   <<Num(r), RgRowsInRange[r][1], RgRowsInRange[r][2]>>]
        /\ \A r \in 1..Len(cleaned.rows) :
              cleaned.rows[r][3].n > 0 /\ cleaned.rows[r][3].n < 1000

\* C27 happens: values on and beyond the limits were removed from among the
\* rows of an RG run, and the rows left were renumbered
C27_Witness ==
    /\ kind = "RG"
    /\ pc = "done"
    /\ \E r \in 1..Len(merged.rows) : Under(merged, merged.rows[r], RGCol) = Num(0)
    /\ \E r \in 1..Len(merged.rows) : Under(merged, merged.rows[r], RGCol) = Num(1000)
    /\ Len(cleaned.rows) > 0
    /\ Len(cleaned.rows) < Len(merged.rows)
    /\ ret = "output_file"

\* the workers whose thread is inside run()
InsideRun == {n \in 1..Len(workers) : workers[n].at \in {"run", "emitted"}}

\* C28 (as claimed): at most one worker is inside its run() at any time.
C28_OneWorkerAtATime == Cardinality(InsideRun) <= 1

\* the workers that were not cancelled and whose run() is past its emit
Ended == {n \in 1..Len(workers) :
             ~workers[n].is_cancelled /\ workers[n].at \in {"emitted", "returned"}}

\* one terminal signal, finished or error_occurred
IsOneTerminalSignal(sent) ==
    Len(sent) = 1 /\ sent[1].signal \in {"finished", "error_occurred"}

\* a worker that has not been cancelled has emitted no terminal signal while
\* it runs its cleaner, and exactly one from then on
ExactlyOneTerminalSignal ==
    \A n \in 1..Len(workers) :
        /\ workers[n].at = "run" => workers[n].sent = <<>>
        /\ n \in Ended => IsOneTerminalSignal(workers[n].sent)

\* C29: every worker that is not cancelled emits exactly one terminal signal,
\* finished or error_occurred, whatever its cleaner type and however its
\* cleaner ends; and the start button, once disabled, is enabled again
\* while the window is open (a window that is closed has no button left).
C29_OneTerminalSignalThenEnabled ==
    /\ []ExactlyOneTerminalSignal
    /\ (~start_btn) ~> (start_btn \/ closed)

\* C29 happens: a worker whose cleaner raised has emitted error_occurred
\* alone and returned, the signal was delivered, and the button is enabled
C29_Witness ==
    /\ ~closed
    /\ Len(workers) = 1
    /\ workers[1].cleaner_type = "DVDS"
    /\ workers[1].at = "returned"
    /\ workers[1].sent = <<ErrorOccurred>>
    /\ signals = <<>>
    /\ start_btn

\* the attempts of the calls that have ended and of the call in flight
AttemptsMade ==
    {returns[n].tried : n \in 1..Len(returns)}
        \cup (IF call.fn = "none" THEN {} ELSE {call.tried})

\* C30: a call of read_excel_fast or write_excel_fast makes at most two
\* attempts. A call that ended made a second attempt exactly when its first
\* one, with the default engine, failed, and the second was with openpyxl; a
\* failure of the second attempt, or of the first with another engine, ended
\* the call: the read raised, the write returned False and never raised.
C30_AtMostOneFallback ==
    /\ \A t \in AttemptsMade : Len(t) <= 2
    /\ call.fn # "none" => Len(call.tried) <= 1
    /\ \A n \in 1..Len(returns) :
          LET r == returns[n]
              first == EngineUsed(r.fn, r.kwargs)
          IN  /\ r.tried \in {<<first>>, <<first, "openpyxl">>}
              /\ Len(r.tried) = 2 => first = DefaultEngine(r.fn)
              /\ (Len(r.tried) = 1 /\ first = DefaultEngine(r.fn))
                    => r.result = Succeeded(r.fn)
              /\ r.result \in (IF r.fn = "read_excel_fast" THEN {"df", "raise"}
                               ELSE {"True", "False"})

\* C30 happens: a read with no engine keyword failed twice and raised, and a
\* write with the engine xlrd failed once and returned False
C30_Witness ==
    /\ \E n \in 1..Len(returns) :
          /\ returns[n].fn = "read_excel_fast"
          /\ returns[n].kwargs = "unset"
          /\ returns[n].tried = <<"calamine", "openpyxl">>
          /\ returns[n].result = "raise"
    /\ \E n \in 1..Len(returns) :
          /\ returns[n].fn = "write_excel_fast"
          /\ returns[n].kwargs = "xlrd"
          /\ returns[n].tried = <<"xlrd">>
          /\ returns[n].result = "False"

=============================================================================
